---------------------------- MODULE Spec2Model ----------------------------
(***************************************************************************)
(* Model of the Zillow connector (nathansnellaert/zillow):                 *)
(*   - the ingest stage (src/src/ingest/zillow_data.py) with the state     *)
(*     and raw stores of src/src/subsets_utils/io.py;                      *)
(*   - the transform stage (src/src/transforms) with the validation layer  *)
(*     (src/src/subsets_utils/testing.py), the table store (io.py) and     *)
(*     publish (src/utils/publish.py);                                     *)
(*   - the dataframe helpers of src/src/transforms/common.py as operators. *)
(***************************************************************************)
EXTENDS Integers, Sequences, FiniteSets, TLC

(***************************************************************************)
(* Bounds of the model.                                                    *)
(***************************************************************************)
\* number of (dataset, region) pairs of the ingest catalog, taken from its
\* head in catalog order, that the model enumerates
NumPairs == 3
\* number of runs of a stage (a run after a crash, a failure or a finished run)
MaxRuns == 2
\* rows of a wide (raw) frame given to load_and_melt
MaxWideRows == 2
\* date columns of a wide (raw) frame given to load_and_melt
MaxDateCols == 2
\* melted variant frames given to merge_variants
MaxFrames == 2
\* rows of a merged frame given to standardize_columns
MaxStdRows == 2
\* raw files, taken from the head of RawPool, that a raw store of the
\* transform stage may hold
NumPool == 8
\* rows of the table given to upload_data and of the table stored before
MaxUploadRows == 2
\* column names, taken from the head of PublishColumns, that a table given
\* to publish may have and its metadata may describe
NumPublishCols == 4

\* number of calls of get/post/put/delete in a process
MaxCalls == 3

\* number of bursts of child output the supervisor copies
MaxChunks == 2

\* number of SIGTERMs delivered to the supervisor
MaxSignals == 1

\* min_rows of the test() functions, scaled from the thresholds of the
\* sources (500 to 500000 rows) to the two-region, two-month source files
MinRows == 2

(***************************************************************************)
(* Generic helpers.                                                        *)
(***************************************************************************)
Range(s) == {s[j] : j \in 1..Len(s)}

NoDuplicates(s) == \A a, b \in 1..Len(s) : a # b => s[a] # s[b]

RECURSIVE SelectSeqBy(_, _)
\* the elements of s, in order, that belong to the set keep
SelectSeqBy(s, keep) ==
    IF s = <<>> THEN <<>>
    ELSE IF Head(s) \in keep THEN <<Head(s)>> \o SelectSeqBy(Tail(s), keep)
         ELSE SelectSeqBy(Tail(s), keep)

(***************************************************************************)
(* Ingest stage: catalog.                                                  *)
(***************************************************************************)
\* ingest/zillow_data.py REGION_TYPES (the capitalised tokens of the file names)
INGEST_REGION_TYPES == <<"Metro", "State", "County", "City", "Zip">>

\* the keys of ingest/zillow_data.py DATASETS, in insertion order
DATASETS ==
    << "zhvi_all_homes", "zhvi_sfr", "zhvi_condo", "zhvi_1bed", "zhvi_2bed",
       "zhvi_3bed", "zhvi_4bed", "zhvi_5bed_plus", "zhvi_bottom_tier",
       "zhvi_top_tier", "zori", "inventory_for_sale", "new_listings",
       "new_pending", "median_list_price", "median_sale_price", "sales_count",
       "pct_sold_above_list", "pct_sold_below_list", "days_to_pending",
       "price_cut_share" >>

\* str.lower() on the strings the model uses
Lower(s) ==
    CASE s = "Metro"  -> "metro"
      [] s = "State"  -> "state"
      [] s = "County" -> "county"
      [] s = "City"   -> "city"
      [] s = "Zip"    -> "zip"
      [] s = "MSA"    -> "msa"
      [] s = "Msa"    -> "msa"
      [] s = "STATE"  -> "state"
      [] s = "TRUE"   -> "true"
      [] s = "True"   -> "true"
      [] OTHER        -> s

\* key = f"{dataset_id}_{region.lower()}"
KeyOf(p) == p[1] \o "_" \o Lower(p[2])

\* for dataset_id in DATASETS: for region in REGION_TYPES: ... (nested loops):
\* the k-th pair visited
CrossProduct(ds, rs) ==
    [k \in 1..(Len(ds) * Len(rs)) |->
        <<ds[((k - 1) \div Len(rs)) + 1], rs[((k - 1) % Len(rs)) + 1]>>]

\* the (dataset, region) pairs the run enumerates, in catalog order
CatalogPairs ==
    SubSeq(CrossProduct(DATASETS, INGEST_REGION_TYPES), 1, NumPairs)

CatalogKeys == {KeyOf(p) : p \in Range(CatalogPairs)}

\* mutant: the completed set is ignored, every pair is downloaded again
DownloadsNoFilter(done) == CatalogPairs

\* downloads: the pairs whose key is not in completed, in catalog order
Downloads(done) ==
    SelectSeqBy(CatalogPairs, {p \in Range(CatalogPairs) : KeyOf(p) \notin done})

\* mutant: the except clause re-raises instead of continuing
ExceptAbort(idx, n) == [pc |-> "raised", i |-> idx]

\* except Exception: print FAILED; the for loop goes on with the next item
ExceptContinue(idx, n) ==
    [pc |-> IF idx < n THEN "get" ELSE "done", i |-> idx + 1]

\* end of the loop body after a successful item
NextItem(idx, n) ==
    [pc |-> IF idx < n THEN "get" ELSE "done", i |-> idx + 1]

(***************************************************************************)
(* Data frames (pandas) as used by src/src/transforms/common.py.           *)
(* A frame is [columns: sequence of column names, rows: sequence of rows]; *)
(* a row maps each column name to a cell; every cell is a string and NA is *)
(* the null cell (NaN / None).                                             *)
(***************************************************************************)
NA == "<NA>"

\* pd.DataFrame()
EmptyFrame == [columns |-> <<>>, rows |-> <<>>]

\* DataFrame.empty: any axis of length 0
IsEmpty(df) == Len(df.rows) = 0 \/ Len(df.columns) = 0

\* c[0] for the column headers of the source files
FirstChar(h) ==
    CASE h \in {"RegionID", "RegionName", "RegionType"} -> "R"
      [] h \in {"SizeRank", "StateName"} -> "S"
      [] h \in {"2020-01-31", "2020-02-29", "2020-03-31"} -> "2"
      [] h \in {"1/31/2020"} -> "1"
      [] OTHER -> "_"

\* str.isdigit() on one character
IsDigit(ch) == ch \in {"0", "1", "2", "3", "4", "5", "6", "7", "8", "9"}

\* mutant: every column but RegionID is melted
IdVarsOnlyRegionID(columns) == SelectSeq(columns, LAMBDA c : c = "RegionID")

\* id_vars = [c for c in df.columns if not c[0].isdigit()]
IdVars(columns) == SelectSeq(columns, LAMBDA c : ~IsDigit(FirstChar(c)))

\* the columns melt() unpivots: those not in id_vars
ValueVars(columns) ==
    SelectSeq(columns, LAMBDA c : c \notin Range(IdVars(columns)))

\* the long row of one input row and one melted column
MeltRow(r, idv, v, value_col) ==
    [c \in Range(idv) \cup {"date", value_col} |->
        IF c = "date" THEN v ELSE IF c = value_col THEN r[v] ELSE r[c]]

RECURSIVE MeltRows(_, _, _, _)
\* melt emits, for each melted column in turn, one row per input row
MeltRows(rows, idv, vs, value_col) ==
    IF vs = <<>> THEN <<>>
    ELSE [j \in 1..Len(rows) |-> MeltRow(rows[j], idv, Head(vs), value_col)]
         \o MeltRows(rows, idv, Tail(vs), value_col)

\* df.melt(id_vars=id_vars, var_name="date", value_name=value_col)
Melt(df, value_col) ==
    [columns |-> IdVars(df.columns) \o <<"date", value_col>>,
     rows |-> MeltRows(df.rows, IdVars(df.columns), ValueVars(df.columns), value_col)]

\* a raw file of the raw store: absent, or the frame pd.read_csv parses from it
RawAbsent == [present |-> FALSE, frame |-> EmptyFrame]
RawFile(df) == [present |-> TRUE, frame |-> df]

\* load_and_melt: an absent raw file (FileNotFoundError) gives pd.DataFrame()
LoadAndMelt(file, value_col) ==
    IF ~file.present THEN EmptyFrame ELSE Melt(file.frame, value_col)

\* the order of the cells of one column under sorting: numbers by value,
\* strings as Python compares them, null last
Rank(s) ==
    CASE s = "101" -> 101
      [] s = "102" -> 102
      [] s = "1/31/2020" -> 1
      [] s = "2020-01-31" -> 2
      [] s = "2020-02-29" -> 3
      [] s = "2020-03-31" -> 4
      [] s = "Austin" -> 1
      [] s = "Boston" -> 2
      [] s = NA -> 1000
      [] OTHER -> 0

RECURSIVE RowLess(_, _, _)
\* lexicographic comparison of two rows on the columns by
RowLess(a, b, by) ==
    IF by = <<>> THEN FALSE
    ELSE IF Rank(a[Head(by)]) # Rank(b[Head(by)])
         THEN Rank(a[Head(by)]) < Rank(b[Head(by)])
         ELSE RowLess(a, b, Tail(by))

RECURSIVE InsertRow(_, _, _)
InsertRow(r, sorted, by) ==
    IF sorted = <<>> THEN <<r>>
    ELSE IF RowLess(r, Head(sorted), by) THEN <<r>> \o sorted
         ELSE <<Head(sorted)>> \o InsertRow(r, Tail(sorted), by)

RECURSIVE SortRows(_, _)
\* a stable sort of rows on the columns by
SortRows(rows, by) ==
    IF rows = <<>> THEN <<>>
    ELSE InsertRow(rows[Len(rows)], SortRows(SubSeq(rows, 1, Len(rows) - 1), by), by)

\* df[cols]
Project(df, cols) ==
    [columns |-> cols,
     rows |-> [j \in 1..Len(df.rows) |-> [c \in Range(cols) |-> df.rows[j][c]]]]

SameKey(a, b, on) == \A k \in Range(on) : a[k] = b[k]

RECURSIVE JoinLeftRows(_, _, _, _)
\* the rows of the join that come from a left row: one per matching right
\* row, or the left row with null right columns when nothing matches
JoinLeftRows(lrows, left, right, on) ==
    IF lrows = <<>> THEN <<>>
    ELSE LET l == Head(lrows)
             cols == Range(left.columns) \cup Range(right.columns)
             ms == SelectSeq(right.rows, LAMBDA r : SameKey(l, r, on))
             Both(r) == [c \in cols |-> IF c \in Range(left.columns) THEN l[c] ELSE r[c]]
             Alone == [c \in cols |-> IF c \in Range(left.columns) THEN l[c] ELSE NA]
         IN  (IF ms = <<>> THEN <<Alone>> ELSE [j \in 1..Len(ms) |-> Both(ms[j])])
             \o JoinLeftRows(Tail(lrows), left, right, on)

\* the rows of the join that come from right rows without a matching left row
JoinRightRows(left, right, on) ==
    LET cols == Range(left.columns) \cup Range(right.columns)
        rs == SelectSeq(right.rows,
                  LAMBDA r : \A j \in 1..Len(left.rows) : ~SameKey(left.rows[j], r, on))
    IN  [j \in 1..Len(rs) |->
            [c \in cols |-> IF c \in Range(right.columns) THEN rs[j][c] ELSE NA]]

\* mutant: how="left", the keys found only in the right frame are lost
MergeLeft(left, right, on) ==
    [columns |-> left.columns \o SelectSeq(right.columns, LAMBDA c : c \notin Range(on)),
     rows |-> SortRows(JoinLeftRows(left.rows, left, right, on), on)]

\* left.merge(right, on=on, how="outer"): the keys are sorted
MergeOuter(left, right, on) ==
    [columns |-> left.columns \o SelectSeq(right.columns, LAMBDA c : c \notin Range(on)),
     rows |-> SortRows(JoinLeftRows(left.rows, left, right, on)
                          \o JoinRightRows(left, right, on), on)]

RECURSIVE MergeFold(_, _, _)
\* for df in dfs[1:]: merged = merged.merge(df[["RegionID", "date", value_col]], ...)
MergeFold(merged, rest, value_cols) ==
    IF rest = <<>> THEN merged
    ELSE LET df == Head(rest)
             value_col == SelectSeq(df.columns, LAMBDA c : c \in Range(value_cols))[1]
             df_subset == Project(df, <<"RegionID", "date", value_col>>)
         IN  MergeFold(MergeOuter(merged, df_subset, <<"RegionID", "date">>),
                       Tail(rest), value_cols)

\* merge_variants(dfs, value_cols)
MergeVariants(dfs, value_cols) ==
    IF dfs = <<>> THEN EmptyFrame ELSE MergeFold(Head(dfs), Tail(dfs), value_cols)

\* transforms/common.py REGION_TYPES
REGION_TYPES == <<"metro", "state", "county", "city", "zip">>

\* transforms/common.py REGION_TYPE_FILTER
REGION_TYPE_FILTER ==
    [metro |-> "msa", state |-> "state", county |-> "county", city |-> "city",
     zip |-> "zip"]

\* pd.to_datetime(...).dt.strftime("%Y-%m-%d") on the date headers
ToIsoDate(s) ==
    CASE s = "1/31/2020" -> "2020-01-31"
      [] s = "2/29/2020" -> "2020-02-29"
      [] OTHER -> s

\* pd.to_numeric(..., errors="coerce"): the number a cell holds, else null
ToNumeric(s) ==
    CASE s \in {"100", "250", "40", "-5", "0", "100.5", "200.5"} -> s
      [] s = "1e2" -> "100"
      [] OTHER -> NA

\* fillna("").astype(str)
FillNaStr(s) == IF s = NA THEN "" ELSE s

\* df.rename(columns={...}) of standardize_columns
RenameCol(c) ==
    CASE c = "RegionID" -> "region_id"
      [] c = "RegionName" -> "region_name"
      [] c = "StateName" -> "state_code"
      [] OTHER -> c

RenameFrame(df) ==
    [columns |-> [j \in 1..Len(df.columns) |-> RenameCol(df.columns[j])],
     rows |-> [j \in 1..Len(df.rows) |->
                 [c2 \in {RenameCol(c) : c \in Range(df.columns)} |->
                     df.rows[j][CHOOSE c \in Range(df.columns) : RenameCol(c) = c2]]]]

\* df.drop(columns=cols)
DropCols(df, cols) ==
    [columns |-> SelectSeq(df.columns, LAMBDA c : c \notin cols),
     rows |-> [j \in 1..Len(df.rows) |->
                 [c \in Range(df.columns) \ cols |-> df.rows[j][c]]]]

\* mutant: the null state codes are kept
FillStateCodeKeepNull(df) == df

\* df["state_code"] = df["state_code"].fillna("").astype(str)
FillStateCode(df) ==
    [columns |-> df.columns,
     rows |-> [j \in 1..Len(df.rows) |->
                 [c \in Range(df.columns) |->
                     IF c = "state_code" THEN FillNaStr(df.rows[j][c]) ELSE df.rows[j][c]]]]

\* df["date"] = pd.to_datetime(df["date"]).dt.strftime("%Y-%m-%d")
ConvertDates(df) ==
    [columns |-> df.columns,
     rows |-> [j \in 1..Len(df.rows) |->
                 [c \in Range(df.columns) |->
                     IF c = "date" THEN ToIsoDate(df.rows[j][c]) ELSE df.rows[j][c]]]]

\* for col in value_cols: if col in df.columns: df[col] = pd.to_numeric(df[col], ...)
CoerceNumeric(df, cols) ==
    [columns |-> df.columns,
     rows |-> [j \in 1..Len(df.rows) |->
                 [c \in Range(df.columns) |->
                     IF c \in cols THEN ToNumeric(df.rows[j][c]) ELSE df.rows[j][c]]]]

FilterRegionTypeKeepNull(df, region_filter) ==
    [columns |-> df.columns,
     rows |-> SelectSeq(df.rows, LAMBDA r : r["RegionType"] = NA
                                            \/ Lower(r["RegionType"]) = region_filter)]

\* df[df["RegionType"].str.lower() == region_filter]
FilterRegionType(df, region_filter) ==
    [columns |-> df.columns,
     rows |-> SelectSeq(df.rows, LAMBDA r : Lower(r["RegionType"]) = region_filter)]

\* mutant: how="any", a row with one null value column is dropped
DropNaAny(df, subset) ==
    [columns |-> df.columns,
     rows |-> SelectSeq(df.rows, LAMBDA r : \A c \in subset : r[c] # NA)]

\* df.dropna(subset=subset, how="all")
DropNaAll(df, subset) ==
    [columns |-> df.columns,
     rows |-> SelectSeq(df.rows, LAMBDA r : \E c \in subset : r[c] # NA)]

\* standardize_columns(df, region_type, value_cols)
StandardizeColumns(df, region_type, value_cols) ==
    LET region_filter == REGION_TYPE_FILTER[region_type]
        filtered ==
            IF "RegionType" \in Range(df.columns)
            THEN FilterRegionType(df, region_filter)
            ELSE df
        renamed == RenameFrame(filtered)
        dropped == DropCols(renamed, {"SizeRank", "RegionType"})
        coded ==
            IF "state_code" \in Range(dropped.columns)
            THEN IF region_type = "state"
                 THEN DropCols(dropped, {"state_code"})
                 ELSE FillStateCode(dropped)
            ELSE dropped
        dated == ConvertDates(coded)
        numeric == CoerceNumeric(dated, Range(value_cols))
        existing_value_cols == Range(value_cols) \cap Range(numeric.columns)
        nonnull ==
            IF existing_value_cols # {}
            THEN DropNaAll(numeric, existing_value_cols)
            ELSE numeric
    IN  IF IsEmpty(filtered) THEN filtered
        ELSE [columns |-> nonnull.columns,
              rows |-> SortRows(nonnull.rows, <<"date", "region_name">>)]

(***************************************************************************)
(* State.                                                                  *)
(***************************************************************************)
VARIABLES
    cloud,          \* is_cloud_mode(): CI=true
    stateDoc,       \* the persisted 'zillow_ingest' state document
    raw,            \* raw store: key -> "absent" | "partial" | "saved"
    pc,             \* position of the ingest process
    completed,      \* run(): the local set completed
    downloads,      \* run(): the list downloads
    i,              \* run(): index of the item of downloads being processed
    resp,           \* status code of the response of the current item
    runs,           \* number of runs started
    gets,           \* history: pairs a GET was issued for in this run
    startCompleted, \* history: completed set loaded at the start of this run
    finished,       \* history: keys whose fetch and raw save finished in this run
    failed,         \* history: pairs whose processing raised in this run
    stateWrites,    \* history: writes of the state document in this run
    rawWrites,      \* history: raw files opened or uploaded in this run
    crashAt,        \* history: key in flight when the process crashed, or "none"
    fnPc,           \* position of a call of a helper of transforms/common.py
    fnInput,        \* the arguments of that call
    fnOutput,       \* the frame it returned
    rawFrames,      \* raw store: raw name -> the frame read_csv parses from the file
    tables,         \* table store: dataset name -> the stored Delta table
    tPc,            \* position of the transform stage
    fam,            \* main(): index of the family whose run() is executing
    reg,            \* run(): index of region_type in REGION_TYPES
    table,          \* run(): the table of the current slice
    exitCode,       \* exit status of the pipeline process, -1 while it runs
    tRuns,          \* number of transform runs started
    started,        \* history: slices whose loop body was entered in this run
    tested,         \* history: slices whose test() returned in this run
    handed,         \* history: the calls of upload_data in this run
    published,      \* history: slices whose publish() returned in this run
    testFailed,     \* history: slices whose test() raised in this run
    raisedBy,       \* history: the call the uncaught exception came from
    cacheEnabled,   \* _client_config['cache_enabled']
    loggingEnabled, \* ENABLE_LOGGING of the process
    client,         \* the module's _client: "none" | "base" | "cached"
    cache,          \* cache directory: cache key -> stored status and body
    httpLog,        \* rows of http_requests.csv
    calls,          \* number of calls of get/post/put/delete made
    storedBy,       \* history: request -> the network answer saved for it
    hCall,          \* history: the last call of get/post/put/delete
    sCloud,         \* supervisor: is_cloud_mode()
    sLogging,       \* supervisor: ENABLE_LOGGING
    sPc,            \* position of the supervisor's main thread in main()
    hPc,            \* position of handle_sigterm: "idle" | "waiting"
    graceTicks,     \* seconds spent in the handler's process.wait(timeout=10)
    child,          \* the pipeline process: "none" | "running" | "dead"
    returncode,     \* Popen.returncode of the child once it is dead
    childTerm,      \* a SIGTERM is pending at the child
    childKill,      \* a SIGKILL is pending at the child
    outLog,         \* lines of output.log
    chunks,         \* number of bursts of output copied
    signals,        \* number of SIGTERMs delivered to the supervisor
    exit_code,      \* main(): exit_code
    endStatus,      \* status handed to debug.log_run_end, "" before
    runLog,         \* rows of runs.csv
    errorTxt,       \* error.txt
    uploaded,       \* upload_logs: "no" | "ok" | "failed"
    supStatus,      \* exit status of the supervisor, -1 while it runs
    termSeen,       \* history: a SIGTERM reached the supervisor while the child ran
    termSent,       \* history: the supervisor called process.terminate()
    killSent,       \* history: the supervisor called process.kill()
    pCloud,         \* profiler run: CI is 'true'
    psutilOk,       \* profiler run: psutil can be imported
    pMain,          \* position of the main thread between Popen and sys.exit
    pChild,         \* the monitored process: "running" | "zombie" | "gone"
    pipe,           \* lines the child wrote that the main thread has not read
    nWritten,       \* number of lines the child wrote
    nRead,          \* number of lines the main thread read from the pipe
    line,           \* the line the loop body holds, 0 when none
    sink,           \* index of the next write of the loop body
    console,        \* what sys.stdout received, in order
    outputLog,      \* lines of output.log written through log_f
    smp,            \* position of the sampler thread in _sample_loop
    stopEvent,      \* MemoryProfiler._stop is set
    memoryCsv,      \* rows of memory.csv
    wrote,          \* history: <<thread, file>> for every file write
    runEnd,         \* the run end has been handed to debug.log_run_end
    uploadedCsv,    \* the rows of memory.csv that upload_logs read
    args,           \* entry point: the parsed command line
    environ,        \* entry point: the names set in os.environ
    ci,             \* entry point: CI is 'true'
    ePc,            \* position of main() of the pipeline
    trace,          \* history: the steps of the pipeline run, in order
    error           \* the ValueError of validate_environment, or NoError

ingestVars == <<cloud, stateDoc, raw, pc, completed, downloads, i, resp, runs,
                gets, startCompleted, finished, failed, stateWrites, rawWrites,
                crashAt>>

fnVars == <<fnPc, fnInput, fnOutput>>

transformVars == <<rawFrames, tables, tPc, fam, reg, table, exitCode, tRuns,
                   started, tested, handed, published, testFailed, raisedBy>>

httpVars == <<cacheEnabled, loggingEnabled, client, cache, httpLog, calls,
              storedBy, hCall>>

supVars == <<sCloud, sLogging, sPc, hPc, graceTicks, child, returncode,
             childTerm, childKill, outLog, chunks, signals, exit_code,
             endStatus, runLog, errorTxt, uploaded, supStatus, termSeen,
             termSent, killSent>>

profVars == <<pCloud, psutilOk, pMain, pChild, pipe, nWritten, nRead, line,
              sink, console, outputLog, smp, stopEvent, memoryCsv, wrote,
              runEnd, uploadedCsv>>

entryVars == <<args, environ, ci, ePc, trace, error>>

vars == <<ingestVars, fnVars, transformVars, httpVars, supVars, profVars,
          entryVars>>

\* the variables the ingest stage leaves alone
notIngestVars == <<fnVars, transformVars, httpVars, supVars,
    profVars, entryVars>>

\* the variables a helper call leaves alone
notFnVars == <<ingestVars, transformVars, httpVars, supVars,
    profVars, entryVars>>

\* the variables the transform stage leaves alone
notTransformVars == <<ingestVars, fnVars, httpVars, supVars,
    profVars, entryVars>>

\* the variables the HTTP fetch layer leaves alone
notHttpVars == <<ingestVars, fnVars, transformVars, supVars,
    profVars, entryVars>>

\* the variables the run supervisor leaves alone
notSupVars == <<ingestVars, fnVars, transformVars, httpVars,
    profVars, entryVars>>

\* the variables the memory profiler's run leaves alone
notProfVars == <<ingestVars, fnVars, transformVars, httpVars, supVars,
                 entryVars>>

\* the variables the pipeline's entry point leaves alone
notEntryVars == <<ingestVars, fnVars, transformVars, httpVars, supVars,
                  profVars>>

\* the state document: absent, a JSON document, or a truncated (unparsable) file
DocAbsent == [kind |-> "absent", completed |-> {}]
DocOf(done) == [kind |-> "doc", completed |-> done]
DocCorrupt == [kind |-> "corrupt", completed |-> {}]

StateToSaveAllKeys(done) == DocOf(CatalogKeys)

\* save_state("zillow_ingest", {"completed": list(completed)}): the document
\* the call writes
StateToSave(done) == DocOf(done)

\* load_state: {} when the document is absent; state.get("completed", [])
LoadCompleted(doc) == doc.completed

\* json.load raises on a truncated file
Loadable(doc) == doc.kind # "corrupt"

CurPair == downloads[i]
CurKey == KeyOf(CurPair)

\* no call of the HTTP fetch layer has been made
NoCall == [kind |-> "none"]

\* error.txt does not exist
NoFile == [kind |-> "none"]

\* validate_environment has not raised
NoError == [kind |-> "none"]

\* no memory profiler has been created
ProfIdle ==
    /\ pCloud = FALSE
    /\ psutilOk = FALSE
    /\ pMain = "off"
    /\ pChild = "gone"
    /\ pipe = <<>>
    /\ nWritten = 0
    /\ nRead = 0
    /\ line = 0
    /\ sink = 0
    /\ console = <<>>
    /\ outputLog = <<>>
    /\ smp = "none"
    /\ stopEvent = FALSE
    /\ memoryCsv = <<>>
    /\ wrote = {}
    /\ runEnd = FALSE
    /\ uploadedCsv = NoFile

\* the pipeline's entry point has not been called
EntryIdle ==
    /\ args = [ingest_only |-> FALSE, transform_only |-> FALSE]
    /\ environ = {}
    /\ ci = FALSE
    /\ ePc = "off"
    /\ trace = <<>>
    /\ error = NoError

\* no supervisor has been started
SupIdle ==
    /\ sCloud = FALSE
    /\ sLogging = FALSE
    /\ sPc = "off"
    /\ hPc = "idle"
    /\ graceTicks = 0
    /\ child = "none"
    /\ returncode = 0
    /\ childTerm = FALSE
    /\ childKill = FALSE
    /\ outLog = <<>>
    /\ chunks = 0
    /\ signals = 0
    /\ exit_code = 0
    /\ endStatus = ""
    /\ runLog = <<>>
    /\ errorTxt = NoFile
    /\ uploaded = "no"
    /\ supStatus = -1
    /\ termSeen = FALSE
    /\ termSent = FALSE
    /\ killSent = FALSE

HttpIdle ==
    /\ cacheEnabled = FALSE
    /\ loggingEnabled = FALSE
    /\ client = "none"
    /\ cache = <<>>
    /\ httpLog = <<>>
    /\ calls = 0
    /\ storedBy = <<>>
    /\ hCall = NoCall

\* no helper call is modelled
FnIdle ==
    /\ fnPc = "off"
    /\ fnInput = RawAbsent
    /\ fnOutput = EmptyFrame

\* the transform stage is not running
TransformIdle ==
    /\ rawFrames = <<>>
    /\ tables = <<>>
    /\ tPc = "off"
    /\ fam = 0
    /\ reg = 0
    /\ table = EmptyFrame
    /\ exitCode = -1
    /\ tRuns = 0
    /\ started = <<>>
    /\ tested = {}
    /\ handed = <<>>
    /\ published = {}
    /\ testFailed = {}
    /\ raisedBy = "none"

\* the ingest stage is not running
IngestIdle ==
    /\ cloud = FALSE
    /\ stateDoc = DocAbsent
    /\ raw = [k \in CatalogKeys |-> "absent"]
    /\ pc = "off"
    /\ completed = {}
    /\ downloads = <<>>
    /\ i = 0
    /\ resp = 0
    /\ runs = 0
    /\ gets = <<>>
    /\ startCompleted = {}
    /\ finished = {}
    /\ failed = {}
    /\ stateWrites = 0
    /\ rawWrites = 0
    /\ crashAt = "none"

IngestInit ==
    /\ FnIdle
    /\ TransformIdle
    /\ HttpIdle
    /\ SupIdle
    /\ ProfIdle
    /\ EntryIdle
    /\ cloud \in BOOLEAN
    /\ \E done \in SUBSET CatalogKeys :
          /\ stateDoc \in (IF done = {} THEN {DocAbsent, DocOf({})} ELSE {DocOf(done)})
          /\ raw = [k \in CatalogKeys |-> IF k \in done THEN "saved" ELSE "absent"]
    /\ pc = "start"
    /\ completed = {}
    /\ downloads = <<>>
    /\ i = 0
    /\ resp = 0
    /\ runs = 1
    /\ gets = <<>>
    /\ startCompleted = {}
    /\ finished = {}
    /\ failed = {}
    /\ stateWrites = 0
    /\ rawWrites = 0
    /\ crashAt = "none"

(***************************************************************************)
(* Ingest stage: run() of ingest/zillow_data.py, one action per step.      *)
(***************************************************************************)
\* lines 129-143: load the state, build downloads, return when it is empty
RunStart ==
    /\ pc = "start"
    /\ UNCHANGED notIngestVars
    /\ IF ~Loadable(stateDoc)
       THEN /\ pc' = "raised"
            /\ UNCHANGED <<completed, downloads, i, startCompleted>>
       ELSE /\ completed' = LoadCompleted(stateDoc)
            /\ startCompleted' = LoadCompleted(stateDoc)
            /\ downloads' = Downloads(LoadCompleted(stateDoc))
            /\ IF Downloads(LoadCompleted(stateDoc)) = <<>>
               THEN pc' = "done" /\ i' = 0
               ELSE pc' = "get" /\ i' = 1
    /\ UNCHANGED <<cloud, stateDoc, raw, resp, runs, gets, finished, failed,
                   stateWrites, rawWrites, crashAt>>

\* the except clause of the loop body, taken from any step of the item
Fail ==
    /\ pc' = ExceptContinue(i, Len(downloads)).pc
    /\ i' = ExceptContinue(i, Len(downloads)).i
    /\ failed' = failed \cup {CurPair}
    /\ resp' = 0

\* line 154: response = get(url, timeout=120.0)
Get ==
    /\ pc = "get"
    /\ UNCHANGED notIngestVars
    /\ gets' = Append(gets, CurPair)
    /\ \/ \E status \in {200, 404} :
             /\ resp' = status
             /\ pc' = "status"
             /\ UNCHANGED <<i, failed>>
       \/ Fail
    /\ UNCHANGED <<cloud, stateDoc, raw, completed, downloads, runs,
                   startCompleted, finished, stateWrites, rawWrites, crashAt>>

\* line 155: response.raise_for_status()
RaiseForStatus ==
    /\ pc = "status"
    /\ UNCHANGED notIngestVars
    /\ IF resp >= 400
       THEN Fail
       ELSE pc' = "save_raw" /\ UNCHANGED <<i, failed, resp>>
    /\ UNCHANGED <<cloud, stateDoc, raw, completed, downloads, runs, gets,
                   startCompleted, finished, stateWrites, rawWrites, crashAt>>

\* line 158 then the start of save_raw_file: in cloud mode one put_object, in
\* local mode open(path, 'w') truncates the file before the content is written
SaveRawFile ==
    /\ pc = "save_raw"
    /\ UNCHANGED notIngestVars
    /\ \/ /\ cloud
          /\ raw' = [raw EXCEPT ![CurKey] = "saved"]
          /\ rawWrites' = rawWrites + 1
          /\ finished' = finished \cup {CurKey}
          /\ completed' = completed \cup {CurKey}
          /\ pc' = "save_state"
          /\ UNCHANGED <<i, failed, resp>>
       \/ /\ ~cloud
          /\ raw' = [raw EXCEPT ![CurKey] = "partial"]
          /\ rawWrites' = rawWrites + 1
          /\ pc' = "raw_write"
          /\ UNCHANGED <<i, failed, resp, finished, completed>>
       \/ /\ Fail
          /\ UNCHANGED <<raw, rawWrites, finished, completed>>
    /\ UNCHANGED <<cloud, stateDoc, downloads, runs, gets, startCompleted,
                   stateWrites, crashAt>>

\* local mode: f.write(content) and close; then completed.add(key) (line 160)
SaveRawWrite ==
    /\ pc = "raw_write"
    /\ UNCHANGED notIngestVars
    /\ \/ /\ raw' = [raw EXCEPT ![CurKey] = "saved"]
          /\ finished' = finished \cup {CurKey}
          /\ completed' = completed \cup {CurKey}
          /\ pc' = "save_state"
          /\ UNCHANGED <<i, failed, resp>>
       \/ /\ Fail
          /\ UNCHANGED <<raw, finished, completed>>
    /\ UNCHANGED <<cloud, stateDoc, downloads, runs, gets, startCompleted,
                   stateWrites, rawWrites, crashAt>>

\* line 161, save_state: load the old document, then write the new one; in
\* cloud mode one put_object, in local mode open(state_file, 'w') truncates
SaveState ==
    /\ pc = "save_state"
    /\ UNCHANGED notIngestVars
    /\ \/ /\ Loadable(stateDoc)
          /\ cloud
          /\ stateDoc' = StateToSave(completed)
          /\ stateWrites' = stateWrites + 1
          /\ pc' = NextItem(i, Len(downloads)).pc
          /\ i' = NextItem(i, Len(downloads)).i
          /\ resp' = 0
          /\ UNCHANGED failed
       \/ /\ Loadable(stateDoc)
          /\ ~cloud
          /\ stateDoc' = DocCorrupt
          /\ stateWrites' = stateWrites + 1
          /\ pc' = "state_write"
          /\ UNCHANGED <<i, failed, resp>>
       \/ /\ Fail
          /\ UNCHANGED <<stateDoc, stateWrites>>
    /\ UNCHANGED <<cloud, raw, completed, downloads, runs, gets, startCompleted,
                   finished, rawWrites, crashAt>>

\* local mode: json.dump(state_data, f) and close (io.py lines 202-203)
SaveStateWrite ==
    /\ pc = "state_write"
    /\ UNCHANGED notIngestVars
    /\ \/ /\ stateDoc' = StateToSave(completed)
          /\ pc' = NextItem(i, Len(downloads)).pc
          /\ i' = NextItem(i, Len(downloads)).i
          /\ resp' = 0
          /\ UNCHANGED failed
       \/ /\ Fail
          /\ UNCHANGED stateDoc
    /\ UNCHANGED <<cloud, raw, completed, downloads, runs, gets, startCompleted,
                   finished, stateWrites, rawWrites, crashAt>>

InLoop == pc \in {"get", "status", "save_raw", "raw_write", "save_state", "state_write"}

\* the process is killed (SIGKILL, power loss): memory is lost, files stay
Crash ==
    /\ InLoop
    /\ UNCHANGED notIngestVars
    /\ pc' = "crashed"
    /\ crashAt' = CurKey
    /\ UNCHANGED <<cloud, stateDoc, raw, completed, downloads, i, resp, runs, gets,
                   startCompleted, finished, failed, stateWrites, rawWrites>>

\* the next run of the pipeline: a new process over the persisted files
NextRun ==
    /\ pc \in {"done", "crashed", "raised"}
    /\ UNCHANGED notIngestVars
    /\ runs < MaxRuns
    /\ runs' = runs + 1
    /\ pc' = "start"
    /\ completed' = {}
    /\ downloads' = <<>>
    /\ i' = 0
    /\ resp' = 0
    /\ gets' = <<>>
    /\ startCompleted' = {}
    /\ finished' = {}
    /\ failed' = {}
    /\ stateWrites' = 0
    /\ rawWrites' = 0
    /\ crashAt' = "none"
    /\ UNCHANGED <<cloud, stateDoc, raw>>

IngestNext ==
    \/ RunStart
    \/ Get
    \/ RaiseForStatus
    \/ SaveRawFile
    \/ SaveRawWrite
    \/ SaveState
    \/ SaveStateWrite
    \/ Crash
    \/ NextRun

SpecIngest == IngestInit /\ [][IngestNext]_vars


(***************************************************************************)
(* load_and_melt on bounded wide frames (SpecMelt).                        *)
(***************************************************************************)
\* the identifier columns of a source file
IdHeaders == <<"RegionID", "SizeRank", "RegionName", "RegionType", "StateName">>

\* date headers of the source files (month ends), ISO and US style
DateHeaders == <<"2020-01-31", "2020-02-29", "2020-03-31", "1/31/2020">>

\* the column layouts of the wide frames: identifier columns, then k date
\* columns; in the last layout a date column precedes an identifier column
WideLayouts ==
    {<<"RegionID", "RegionName">> \o SubSeq(DateHeaders, 1, k) : k \in 0..MaxDateCols}
    \cup {IdHeaders \o SubSeq(DateHeaders, 1, k) : k \in 0..MaxDateCols}
    \cup {<<"RegionID">> \o SubSeq(DateHeaders, 1, k) \o <<"RegionName">> : k \in 1..MaxDateCols}

\* the cell of an identifier column for the region with the given id
IdCell(c, id) ==
    CASE c = "RegionID"   -> id
      [] c = "SizeRank"   -> "1"
      [] c = "RegionName" -> (IF id = "101" THEN "Austin" ELSE "Boston")
      [] c = "RegionType" -> "msa"
      [] c = "StateName"  -> "TX"
      [] OTHER            -> NA

\* the rows a wide frame with the given columns can hold
WideRowsOf(columns) ==
    {[c \in Range(columns) |-> IF IsDigit(FirstChar(c)) THEN cells[c] ELSE IdCell(c, id)] :
        id \in {"101", "102"},
        cells \in [{c \in Range(columns) : IsDigit(FirstChar(c))} -> {"100", NA}]}

SeqsUpTo(S, n) == UNION {[1..m -> S] : m \in 0..n}

\* the wide frames of at most n rows
WideFrames(n) ==
    UNION {{[columns |-> cols, rows |-> rs] : rs \in SeqsUpTo(WideRowsOf(cols), n)} :
              cols \in WideLayouts}

MeltInit ==
    /\ IngestIdle
    /\ TransformIdle
    /\ HttpIdle
    /\ SupIdle
    /\ ProfIdle
    /\ EntryIdle
    /\ fnPc = "input"
    /\ fnInput \in {RawAbsent} \cup {RawFile(df) : df \in WideFrames(MaxWideRows)}
    /\ fnOutput = EmptyFrame

\* df = load_and_melt(raw_name, value_col)
CallLoadAndMelt ==
    /\ fnPc = "input"
    /\ fnOutput' = LoadAndMelt(fnInput, "value")
    /\ fnPc' = "melted"
    /\ UNCHANGED <<fnInput, notFnVars>>

MeltNext == CallLoadAndMelt

SpecMelt == MeltInit /\ [][MeltNext]_vars

\* C9: a wide frame of n rows with k date columns (first character a digit)
\* melts to exactly n*k rows, one per (input row, date column), carrying the
\* identifier values, the header as date and the cell as value; an absent raw
\* file gives an empty frame.
C9_MeltRowCount ==
    fnPc = "melted" =>
        IF ~fnInput.present THEN fnOutput = EmptyFrame
        ELSE LET df == fnInput.frame
                 ids == {c \in Range(df.columns) : ~IsDigit(FirstChar(c))}
                 dates == {c \in Range(df.columns) : IsDigit(FirstChar(c))}
                 n == Len(df.rows)
                 pairs == (1..n) \X dates
                 Expected(q) ==
                     [c \in ids \cup {"date", "value"} |->
                         IF c = "date" THEN q[2]
                         ELSE IF c = "value" THEN df.rows[q[1]][q[2]]
                         ELSE df.rows[q[1]][c]]
                 out == fnOutput.rows
             IN  /\ Len(out) = n * Cardinality(dates)
                 /\ \A j \in 1..Len(out) : \E q \in pairs : out[j] = Expected(q)
                 /\ \A q \in pairs :
                       Cardinality({j \in 1..Len(out) : out[j] = Expected(q)})
                         = Cardinality({q2 \in pairs : Expected(q2) = Expected(q)})

\* a frame of two rows and two date columns was melted to four rows
C9_Witness ==
    /\ fnPc = "melted"
    /\ fnInput.present
    /\ Len(fnInput.frame.rows) = 2
    /\ Len(fnInput.frame.columns) = Len(IdHeaders) + 2
    /\ Len(fnOutput.rows) = 4

(***************************************************************************)
(* merge_variants on bounded melted frames (SpecMerge).                    *)
(***************************************************************************)
\* transforms/home_value/main.py ZHVI_VARIANTS.values()
ZHVI_VALUE_COLS ==
    <<"all_homes", "single_family", "condo", "bed_1", "bed_2", "bed_3", "bed_4",
      "bed_5_plus", "bottom_tier", "top_tier">>

\* the (RegionID, date) keys of the melted frames
MergeKeys == {<<"101", "2020-01-31">>, <<"102", "2020-01-31">>, <<"101", "2020-02-29">>}

RECURSIVE KeyRows(_)
\* the keys of a set as rows, in any order
KeyRows(ks) ==
    IF ks = {} THEN <<>>
    ELSE LET k == CHOOSE q \in ks : TRUE
         IN  <<[RegionID |-> k[1], date |-> k[2]]>> \o KeyRows(ks \ {k})

\* the melted frame of a variant: one row per key of the domain of cells, in
\* melt order (date column, then input row), with the cell of that key as value
MeltedFrame(value_col, cells) ==
    LET cols == <<"RegionID", "RegionName", "RegionType", "date", value_col>>
        keyRows == SortRows(KeyRows(DOMAIN cells), <<"date", "RegionID">>)
    IN  [columns |-> cols,
         rows |-> [j \in 1..Len(keyRows) |->
                     [c \in Range(cols) |->
                        CASE c = "RegionID" -> keyRows[j].RegionID
                          [] c = "date" -> keyRows[j].date
                          [] c = value_col -> cells[<<keyRows[j].RegionID, keyRows[j].date>>]
                          [] OTHER -> IdCell(c, keyRows[j].RegionID)]]]

\* a variant's cells: a value or null for each key the variant has
VariantCells == UNION {[ks -> {"100", NA}] : ks \in SUBSET MergeKeys}

\* the melted frames the j-th variant of the family can give
VariantFrames(j) == {MeltedFrame(ZHVI_VALUE_COLS[j], cells) : cells \in VariantCells}

RECURSIVE FrameLists(_)
\* the lists of m frames, the j-th frame being one of the j-th variant
FrameLists(m) ==
    IF m = 0 THEN {<<>>}
    ELSE {Append(dfs, df) : dfs \in FrameLists(m - 1), df \in VariantFrames(m)}

\* the argument lists dfs of merge_variants: 1..n frames of distinct variants
MergeInputs(n) == UNION {FrameLists(m) : m \in 1..n}

KeysOf(df) == {<<df.rows[j]["RegionID"], df.rows[j]["date"]>> : j \in 1..Len(df.rows)}

MergeInit ==
    /\ IngestIdle
    /\ TransformIdle
    /\ HttpIdle
    /\ SupIdle
    /\ ProfIdle
    /\ EntryIdle
    /\ fnPc = "input"
    /\ fnInput \in MergeInputs(MaxFrames)
    /\ fnOutput = EmptyFrame

\* merged = merge_variants(dfs, value_cols)
CallMergeVariants ==
    /\ fnPc = "input"
    /\ fnOutput' = MergeVariants(fnInput, ZHVI_VALUE_COLS)
    /\ fnPc' = "merged"
    /\ UNCHANGED <<fnInput, notFnVars>>

MergeNext == CallMergeVariants

SpecMerge == MergeInit /\ [][MergeNext]_vars

\* the value column of the j-th frame of the argument list
ValueColOf(j) == ZHVI_VALUE_COLS[j]

\* the keys of the result are the union of the keys of the frames, each once
UnionOfKeysOnce ==
    /\ KeysOf(fnOutput) = UNION {KeysOf(fnInput[j]) : j \in 1..Len(fnInput)}
    /\ \A a, b \in 1..Len(fnOutput.rows) :
          (a # b) => ~SameKey(fnOutput.rows[a], fnOutput.rows[b], <<"RegionID", "date">>)

\* C8 (as claimed): the result has the union of the keys, each once, and the
\* value column of a variant is null exactly on the keys that variant lacks.
C8_NullExactlyOnMissing ==
    fnPc = "merged" =>
        /\ UnionOfKeysOnce
        /\ \A j \in 1..Len(fnInput) : \A a \in 1..Len(fnOutput.rows) :
              (fnOutput.rows[a][ValueColOf(j)] = NA)
                <=> (<<fnOutput.rows[a]["RegionID"], fnOutput.rows[a]["date"]>>
                        \notin KeysOf(fnInput[j]))

\* C8 (amended): the result has the union of the keys, each once; the value
\* column of a variant is null on every key that variant lacks and holds the
\* variant's own cell, null or not, on every key it has.
C8_OuterMergeUnion ==
    fnPc = "merged" =>
        /\ UnionOfKeysOnce
        /\ \A j \in 1..Len(fnInput) : \A a \in 1..Len(fnOutput.rows) :
              LET row == fnOutput.rows[a]
                  src == {b \in 1..Len(fnInput[j].rows) :
                             SameKey(fnInput[j].rows[b], row, <<"RegionID", "date">>)}
              IN  IF src = {} THEN row[ValueColOf(j)] = NA
                  ELSE \A b \in src : row[ValueColOf(j)] = fnInput[j].rows[b][ValueColOf(j)]

\* two variants were merged, each having a key the other lacks
C8_Witness ==
    /\ fnPc = "merged"
    /\ Len(fnInput) = 2
    /\ KeysOf(fnInput[1]) \ KeysOf(fnInput[2]) # {}
    /\ KeysOf(fnInput[2]) \ KeysOf(fnInput[1]) # {}
    /\ KeysOf(fnInput[1]) \cap KeysOf(fnInput[2]) # {}
    /\ Len(fnOutput.rows) = 3

(***************************************************************************)
(* standardize_columns on bounded merged frames (SpecStandardize).         *)
(***************************************************************************)
\* the columns of a merged frame of two variants of a source file
MergedColumns ==
    <<"RegionID", "SizeRank", "RegionName", "RegionType", "StateName", "date",
      "all_homes", "single_family">>

\* the rows of the merged frames: a key, a RegionType cell as the source
\* writes it (any case) or null, and the cells of the two value columns
MergedRows ==
    {[c \in Range(MergedColumns) |->
        CASE c = "RegionType" -> t
          [] c = "date" -> k[2]
          [] c = "all_homes" -> v[1]
          [] c = "single_family" -> v[2]
          [] OTHER -> IdCell(c, k[1])] :
        k \in {<<"102", "2020-01-31">>, <<"101", "1/31/2020">>, <<"101", "2020-02-29">>},
        t \in {"msa", "MSA", "state", NA},
        v \in {"100", "abc"} \X {"1e2", NA}}

StandardizeInit ==
    /\ IngestIdle
    /\ TransformIdle
    /\ HttpIdle
    /\ SupIdle
    /\ ProfIdle
    /\ EntryIdle
    /\ fnPc = "input"
    /\ fnInput \in {[df |-> [columns |-> MergedColumns, rows |-> rs], region_type |-> rt] :
                       rs \in SeqsUpTo(MergedRows, MaxStdRows), rt \in {"metro", "state"}}
    /\ fnOutput = EmptyFrame

\* merged = standardize_columns(merged, region_type, value_cols)
CallStandardizeColumns ==
    /\ fnPc = "input"
    /\ fnOutput' = StandardizeColumns(fnInput.df, fnInput.region_type, ZHVI_VALUE_COLS)
    /\ fnPc' = "standardized"
    /\ UNCHANGED <<fnInput, notFnVars>>

StandardizeNext == CallStandardizeColumns

SpecStandardize == StandardizeInit /\ [][StandardizeNext]_vars

\* the tag of a granularity: metro -> 'msa', the others their own name
TagOf(rt) == IF rt = "metro" THEN "msa" ELSE rt

\* a cell is numeric after coercion
IsNumericCell(s) == s \in {"100", "1e2"}

\* the claim's condition for an input row to be kept
C10_Kept(r, rt) ==
    /\ r["RegionType"] # NA
    /\ Lower(r["RegionType"]) = TagOf(rt)
    /\ \E c \in {"all_homes", "single_family"} : IsNumericCell(r[c])

\* what identifies an input row in the output: its region id and its cells
C10_Image(r) == <<r["RegionID"], r["RegionName"], IF IsNumericCell(r["all_homes"]) THEN "n" ELSE "-",
                  IF IsNumericCell(r["single_family"]) THEN "n" ELSE "-">>

C10_OutImage(r) == <<r["region_id"], r["region_name"], IF r["all_homes"] # NA THEN "n" ELSE "-",
                     IF r["single_family"] # NA THEN "n" ELSE "-">>

FAMILIES == <<"home_value", "rent", "inventory", "sales">>

\* transforms/common.py REGION_TYPE_LABELS
REGION_TYPE_LABELS ==
    [metro |-> "Metro Area (MSA)", state |-> "State", county |-> "County",
     city |-> "City", zip |-> "ZIP Code"]

\* transforms/home_value/main.py ZHVI_VARIANTS: (raw_prefix, col_name) items
ZHVI_VARIANTS ==
    << <<"zhvi_all_homes", "all_homes">>, <<"zhvi_sfr", "single_family">>,
       <<"zhvi_condo", "condo">>, <<"zhvi_1bed", "bed_1">>, <<"zhvi_2bed", "bed_2">>,
       <<"zhvi_3bed", "bed_3">>, <<"zhvi_4bed", "bed_4">>,
       <<"zhvi_5bed_plus", "bed_5_plus">>, <<"zhvi_bottom_tier", "bottom_tier">>,
       <<"zhvi_top_tier", "top_tier">> >>

\* transforms/rent/main.py: the single raw file zori_{region_type}, column rent
ZORI_VARIANTS == << <<"zori", "rent">> >>

\* transforms/inventory/main.py INVENTORY_VARIANTS
INVENTORY_VARIANTS ==
    << <<"inventory_for_sale", "for_sale_inventory">>, <<"new_listings", "new_listings">>,
       <<"new_pending", "new_pending">> >>

\* transforms/sales/main.py SALES_VARIANTS
SALES_VARIANTS ==
    << <<"median_list_price", "median_list_price">>,
       <<"median_sale_price", "median_sale_price">>, <<"sales_count", "sales_count">>,
       <<"pct_sold_above_list", "pct_sold_above_list">>,
       <<"pct_sold_below_list", "pct_sold_below_list">>,
       <<"days_to_pending", "days_to_pending">>, <<"price_cut_share", "pct_price_cut">> >>

VariantsOf(family) ==
    CASE family = "home_value" -> ZHVI_VARIANTS
      [] family = "rent"       -> ZORI_VARIANTS
      [] family = "inventory"  -> INVENTORY_VARIANTS
      [] family = "sales"      -> SALES_VARIANTS

\* value_cols = list(VARIANTS.values())
ValueCols(family) ==
    [j \in 1..Len(VariantsOf(family)) |-> VariantsOf(family)[j][2]]

\* raw_name = f"{raw_prefix}_{region_type}"
RawName(raw_prefix, region_type) == raw_prefix \o "_" \o region_type

\* dataset_id = f"zillow_{family}_{region_type}"
DatasetId(family, region_type) == "zillow_" \o family \o "_" \o region_type

DatasetIds ==
    {DatasetId(FAMILIES[f], REGION_TYPES[r]) : f \in 1..Len(FAMILIES), r \in 1..Len(REGION_TYPES)}

\* the raw files a store may hold, as (raw_prefix, region_type); the stores
\* of the model hold any subset of the first NumPool of them
RawPool ==
    << <<"zhvi_all_homes", "metro">>, <<"zhvi_all_homes", "state">>, <<"zori", "metro">>,
       <<"inventory_for_sale", "metro">>, <<"new_listings", "metro">>,
       <<"new_pending", "metro">>, <<"median_sale_price", "metro">>,
       <<"zori", "state">>, <<"median_list_price", "metro">> >>

\* a source file of the granularity: two regions and two months; the second
\* region has no StateName
GoodWide(region_type) ==
    LET cols == IdHeaders \o <<"2020-01-31", "2020-02-29">>
        Row(id) == [c \in Range(cols) |->
                       IF IsDigit(FirstChar(c)) THEN "100.5"
                       ELSE IF c = "RegionType" THEN REGION_TYPE_FILTER[region_type]
                       ELSE IF c = "StateName" /\ id = "102" THEN NA
                       ELSE IdCell(c, id)]
    IN  [columns |-> cols, rows |-> <<Row("101"), Row("102")>>]

\* a source file that lists the same region twice
DupWide(region_type) ==
    [columns |-> GoodWide(region_type).columns,
     rows |-> <<GoodWide(region_type).rows[1], GoodWide(region_type).rows[1]>>]

\* a source file of one region and one month
ShortWide(region_type) ==
    LET cols == IdHeaders \o <<"2020-01-31">>
    IN  [columns |-> cols,
         rows |-> << [c \in Range(cols) |-> GoodWide(region_type).rows[1][c]] >>]

\* a source file whose first region has no RegionName
NoNameWide(region_type) ==
    [columns |-> GoodWide(region_type).columns,
     rows |-> <<[GoodWide(region_type).rows[1] EXCEPT !["RegionName"] = NA],
                GoodWide(region_type).rows[2]>>]

WideOf(region_type, defect) ==
    CASE defect = "dup"    -> DupWide(region_type)
      [] defect = "short"  -> ShortWide(region_type)
      [] defect = "noname" -> NoNameWide(region_type)
      [] OTHER            -> GoodWide(region_type)

\* the raw stores over the first n files of the pool: every subset of them
\* present, at most one of the present files being defective
RawStores(n) ==
    LET pool == Range(SubSeq(RawPool, 1, n))
        names == {RawName(e[1], e[2]) : e \in pool}
        Entry(nm) == CHOOSE e \in pool : RawName(e[1], e[2]) = nm
        Store(present, bad, defect) ==
            [nm \in names |->
                IF Entry(nm) \notin present THEN RawAbsent
                ELSE RawFile(WideOf(Entry(nm)[2], IF Entry(nm) = bad THEN defect ELSE "good"))]
    IN  UNION {{Store(present, <<"none", "none">>, "good")}
               \cup {Store(present, bad, defect) : bad \in present, defect \in {"dup", "short", "noname"}} :
                  present \in SUBSET pool}

\* load_raw_file(raw_name): the file of the store, FileNotFoundError when absent
RawLookup(store, raw_name) ==
    IF raw_name \in DOMAIN store THEN store[raw_name] ELSE RawAbsent

RECURSIVE LoadVariants(_, _, _)
\* for raw_prefix, col_name in VARIANTS.items(): df = load_and_melt(...);
\* if not df.empty: dfs.append(df)
LoadVariants(store, variants, region_type) ==
    IF variants = <<>> THEN <<>>
    ELSE LET df == LoadAndMelt(RawLookup(store, RawName(Head(variants)[1], region_type)),
                               Head(variants)[2])
         IN  (IF IsEmpty(df) THEN <<>> ELSE <<df>>)
             \o LoadVariants(store, Tail(variants), region_type)

\* the loop body of run() up to to_table: the standardized frame of the
\* slice, or an empty frame when the slice is skipped (continue)
SliceFrame(store, family, region_type) ==
    IF family = "rent"
    THEN LET df == LoadAndMelt(RawLookup(store, RawName("zori", region_type)), "rent")
         IN  IF IsEmpty(df) THEN EmptyFrame
             ELSE StandardizeColumns(df, region_type, <<"rent">>)
    ELSE LET dfs == LoadVariants(store, VariantsOf(family), region_type)
         IN  IF dfs = <<>> THEN EmptyFrame
             ELSE StandardizeColumns(MergeVariants(dfs, ValueCols(family)), region_type,
                                     ValueCols(family))

(***************************************************************************)
(* Validation layer: subsets_utils/testing.py and the test() functions.    *)
(***************************************************************************)
\* the cell holds an integer / a number (as read_csv and to_numeric parse it)
IsIntCell(s) == s \in {"101", "102", "1", "100", "250", "40", "-5", "0"}
IsNumCell(s) == IsIntCell(s) \/ s \in {"100.5", "200.5"}

\* the number a numeric cell holds, in tenths
Tenths(s) ==
    CASE s = "100.5" -> 1005
      [] s = "200.5" -> 2005
      [] s = "100"   -> 1000
      [] s = "250"   -> 2500
      [] s = "40"    -> 400
      [] s = "-5"    -> -50
      [] OTHER       -> 0

\* the cells of a column (table.column(col).to_pylist())
ColumnCells(df, col) == {df.rows[j][col] : j \in 1..Len(df.rows)}

\* str(table.schema.field(col).type) after pa.Table.from_pandas: a numeric
\* column is int64 when it holds integers only and double otherwise (NaN
\* included); an object column is string, or null when it holds no value
ColType(df, col, numeric_cols) ==
    LET cells == ColumnCells(df, col)
    IN  IF col \in numeric_cols \/ \A s \in cells : (s = NA \/ IsNumCell(s))
        THEN IF col \notin numeric_cols /\ cells \subseteq {NA} THEN "null"
             ELSE IF \A s \in cells : IsIntCell(s) THEN "int64" ELSE "double"
        ELSE "string"

\* expected_type in actual_type (substring) on the type names above
TypeContains(actual, expected) ==
    <<actual, expected>> \in {<<"int64", "int">>, <<"double", "double">>,
                              <<"string", "string">>, <<"null", "null">>}

\* table.column(col).null_count
NullCount(df, col) == Cardinality({j \in 1..Len(df.rows) : df.rows[j][col] = NA})

DuplicateCountFirstColumn(df, unique) ==
    Len(df.rows) - Cardinality({df.rows[j][unique[1]] : j \in 1..Len(df.rows)})

\* duplicates = len(rows) - len(set(rows)) over the key columns
DuplicateCount(df, unique) ==
    Len(df.rows)
      - Cardinality({[k \in 1..Len(unique) |-> df.rows[j][unique[k]]] : j \in 1..Len(df.rows)})

\* mutant: the unique key is not checked
ValidateNoUnique(df, schema, numeric_cols) ==
    /\ (schema.min_rows # 0) => Len(df.rows) >= schema.min_rows
    /\ \A col \in DOMAIN schema.columns :
          /\ col \in Range(df.columns)
          /\ TypeContains(ColType(df, col, numeric_cols), schema.columns[col])
    /\ \A col \in Range(schema.not_null) :
          col \in Range(df.columns) /\ NullCount(df, col) = 0

\* validate(table, schema) returns without raising; the schemas of the
\* test() functions have the keys columns, not_null, unique and min_rows
Validate(df, schema, numeric_cols) ==
    /\ (schema.min_rows # 0) => Len(df.rows) >= schema.min_rows
    /\ \A col \in DOMAIN schema.columns :
          /\ col \in Range(df.columns)
          /\ TypeContains(ColType(df, col, numeric_cols), schema.columns[col])
    /\ \A col \in Range(schema.not_null) :
          col \in Range(df.columns) /\ NullCount(df, col) = 0
    /\ \A col \in Range(schema.unique) : col \in Range(df.columns)
    /\ DuplicateCount(df, schema.unique) = 0

\* ^\d{4}-(0[1-9]|1[0-2])-(0[1-9]|[12]\d|3[01])$ on the dates of the model
IsIsoDate(s) == s \in {"2020-01-31", "2020-02-29", "2020-03-31"}

\* int(date[:4])
YearOf(s) == IF IsIsoDate(s) THEN 2020 ELSE 0

\* assert_valid_date(table, "date")
AssertValidDate(df) == \A s \in ColumnCells(df, "date") : s = NA \/ IsIsoDate(s)

\* columns_spec of test(): the three key columns, state_code when the table
\* has it with a non-null type, every value column the table has
ColumnsSpec(df, family) ==
    LET vcols == Range(ValueCols(family))
        spec_cols == {"date", "region_id", "region_name"}
                     \cup (IF family = "rent" THEN {"rent"} ELSE vcols \cap Range(df.columns))
                     \cup (IF "state_code" \in Range(df.columns)
                              /\ ColType(df, "state_code", vcols) # "null"
                           THEN {"state_code"} ELSE {})
    IN  [col \in spec_cols |->
            CASE col = "region_id" -> "int"
              [] col \in {"date", "region_name", "state_code"} -> "string"
              [] OTHER -> "double"]

\* the schema test() hands to validate
SchemaOf(df, family, region_type) ==
    [columns |-> ColumnsSpec(df, family),
     not_null |-> IF family = "rent" THEN <<"date", "region_id", "region_name", "rent">>
                  ELSE <<"date", "region_id", "region_name">>,
     unique |-> <<"date", "region_id">>,
     min_rows |-> MinRows]

\* the range assertions of test() on one value (in tenths) of one column
ValueInRange(family, col, t) ==
    CASE family = "home_value" -> t >= 0 /\ t <= 500000000
      [] family = "rent"       -> t > 0 /\ t >= 1000 /\ t <= 2000000
      [] family = "inventory"  -> t >= 0 /\ t <= 100000000
      [] family = "sales" ->
            CASE col \in {"median_list_price", "median_sale_price"} -> t >= 0 /\ t <= 1000000000
              [] col \in {"pct_sold_above_list", "pct_sold_below_list", "pct_price_cut"} ->
                    t >= 0 /\ t <= 1000
              [] col = "days_to_pending" -> t >= 0 /\ t <= 3650
              [] OTHER -> t >= 0

\* the oldest year test() accepts
MinYear(family) == IF family = "home_value" THEN 1990 ELSE 2010

\* the assertions of test() after validate: date format, value ranges of the
\* value columns the table has, year range
RangeAsserts(df, family) ==
    /\ AssertValidDate(df)
    /\ \A col \in Range(ValueCols(family)) \cap Range(df.columns) :
          \A s \in ColumnCells(df, col) : s = NA \/ ValueInRange(family, col, Tenths(s))
    /\ \A s \in ColumnCells(df, "date") :
          YearOf(s) >= MinYear(family) /\ YearOf(s) <= 2030

\* test(table, region_type) of the family returns without raising
Test(df, family, region_type) ==
    /\ Validate(df, SchemaOf(df, family, region_type), Range(ValueCols(family)))
    /\ RangeAsserts(df, family)

(***************************************************************************)
(* Table store (subsets_utils/io.py upload_data) and publish.              *)
(***************************************************************************)
\* no description is set on the table
NoDescription == [id |-> "", title |-> "", column_descriptions |-> {}]

\* a dataset without a Delta table
NoTable == [exists |-> FALSE, columns |-> <<>>, rows |-> <<>>, description |-> NoDescription]

\* the rows of a table widened to the columns cols, null where a row has none
WidenRows(rows, cols) ==
    [j \in 1..Len(rows) |->
        [c \in Range(cols) |-> IF c \in DOMAIN rows[j] THEN rows[j][c] ELSE NA]]

\* write_deltalake(path, data, mode=mode, schema_mode="merge" if mode ==
\* "append" else "overwrite"): append adds the rows and the new columns
WriteDeltalake(stored, data, mode) ==
    IF mode = "append" /\ stored.exists
    THEN LET cols == stored.columns
                     \o SelectSeq(data.columns, LAMBDA c : c \notin Range(stored.columns))
         IN  [exists |-> TRUE, columns |-> cols,
              rows |-> WidenRows(stored.rows, cols) \o WidenRows(data.rows, cols),
              description |-> stored.description]
    ELSE [exists |-> TRUE, columns |-> data.columns, rows |-> data.rows,
          description |-> stored.description]

\* dt.merge(...).when_matched_update(updates).when_not_matched_insert(updates):
\* a stored row whose merge_key matches a source row takes that row's cells,
\* the source rows that match no stored row are inserted
MergeInto(stored, data, merge_key) ==
    IF ~stored.exists
    THEN [exists |-> TRUE, columns |-> data.columns, rows |-> data.rows,
          description |-> stored.description]
    ELSE LET Src(t) == SelectSeq(data.rows, LAMBDA r : r[merge_key] = t[merge_key])
             updated == [j \in 1..Len(stored.rows) |->
                            IF Src(stored.rows[j]) = <<>> THEN stored.rows[j]
                            ELSE [c \in Range(stored.columns) |->
                                     IF c \in Range(data.columns)
                                     THEN Src(stored.rows[j])[1][c] ELSE stored.rows[j][c]]]
             inserted == SelectSeq(data.rows,
                             LAMBDA r : \A j \in 1..Len(stored.rows) :
                                           stored.rows[j][merge_key] # r[merge_key])
         IN  [exists |-> TRUE, columns |-> stored.columns,
              rows |-> updated \o WidenRows(inserted, stored.columns),
              description |-> stored.description]

\* mutant: only the mode name is checked, a merge without merge_key goes on
ModeErrorOnlyMode(mode, merge_key) == mode \notin {"append", "overwrite", "merge"}

\* upload_data lines 29-33: the two checks that raise ValueError; merge_key
\* "" stands for None
ModeError(mode, merge_key) ==
    \/ mode \notin {"append", "overwrite", "merge"}
    \/ (mode = "merge" /\ merge_key = "")

\* upload_data(data, dataset_name, mode=mode, merge_key=merge_key): whether
\* the call raised ValueError, the store after the call, and the accesses to
\* the table store and to the log sink (debug.log_data_output) it made
UploadData(store, data, dataset_name, mode, merge_key) ==
    IF ModeError(mode, merge_key) THEN [raised |-> TRUE, store |-> store, io |-> <<>>]
    ELSE IF Len(data.rows) = 0 THEN [raised |-> FALSE, store |-> store, io |-> <<>>]
    ELSE [raised |-> FALSE,
          store |-> [store EXCEPT ![dataset_name] =
                        IF mode = "merge" THEN MergeInto(@, data, merge_key)
                        ELSE WriteDeltalake(@, data, mode)],
          io |-> (IF mode = "merge" /\ store[dataset_name].exists
                  THEN <<"read_table", "merge_table">> ELSE <<"write_table">>)
                 \o <<"log_data_output">>]

\* the column names make_metadata of the family describes: home_value, rent
\* and inventory describe every value column of the family, sales only the
\* columns of the table
DescribedColumns(family, region_type, columns) ==
    IF family = "sales"
    THEN ({"date", "region_id", "region_name", "state_code"} \cup Range(ValueCols(family)))
         \cap Range(columns)
    ELSE {"date", "region_id", "region_name"} \cup Range(ValueCols(family))
         \cup (IF region_type # "state" THEN {"state_code"} ELSE {})

\* the title make_metadata gives the dataset
TitleOf(family, region_type) ==
    (CASE family = "home_value" -> "Zillow Home Value Index by "
       [] family = "rent"       -> "Zillow Observed Rent Index by "
       [] family = "inventory"  -> "Zillow Housing Inventory by "
       [] family = "sales"      -> "Zillow Sales Metrics by ")
    \o REGION_TYPE_LABELS[region_type]

\* make_metadata(region_type) / make_metadata(region_type, list(merged.columns))
MakeMetadata(family, region_type, columns) ==
    [id |-> DatasetId(family, region_type),
     title |-> TitleOf(family, region_type),
     column_descriptions |-> DescribedColumns(family, region_type, columns)]

\* mutant: no described column is reported as invalid
InvalidColumnsNone(stored, metadata) == {}

\* invalid = set(col_descs.keys()) - actual_columns
InvalidColumns(stored, metadata) ==
    IF "column_descriptions" \in DOMAIN metadata
    THEN metadata.column_descriptions \ Range(stored.columns)
    ELSE {}

\* publish(dataset_name, metadata) on the dataset's Delta table: raises when
\* id or title is missing, when the table does not exist and when a described
\* column is not in the schema (invalid: the names the ValueError lists);
\* otherwise sets the table description
Publish(stored, metadata) ==
    IF "id" \notin DOMAIN metadata \/ "title" \notin DOMAIN metadata \/ ~stored.exists
    THEN [raised |-> TRUE, invalid |-> {}, table |-> stored]
    ELSE IF InvalidColumns(stored, metadata) # {}
    THEN [raised |-> TRUE, invalid |-> InvalidColumns(stored, metadata), table |-> stored]
    ELSE [raised |-> FALSE, invalid |-> {},
          table |-> [stored EXCEPT !.description = metadata]]

(***************************************************************************)
(* Transform stage: main() lines 44-53 and the run() of each family, one   *)
(* action per step of the loop body (SpecTransform).                       *)
(***************************************************************************)
CurFamily == FAMILIES[fam]
CurRegion == REGION_TYPES[reg]
CurSlice == <<fam, reg>>
CurDataset == DatasetId(CurFamily, CurRegion)

\* the slice after (f, r): the next region_type of the family, then the
\* first region_type of the next family, then the end of main()
Advance(f, r) ==
    IF r < Len(REGION_TYPES) THEN [pc |-> "load", fam |-> f, reg |-> r + 1, exit |-> -1]
    ELSE IF f < Len(FAMILIES) THEN [pc |-> "load", fam |-> f + 1, reg |-> 1, exit |-> -1]
    ELSE [pc |-> "done", fam |-> f, reg |-> r, exit |-> 0]

\* mutant: the loop body catches the exception and goes on with the next slice
CatchAndContinue(f, r) == Advance(f, r)

\* an exception raised in the loop body: neither run() nor main() has a
\* try/except, the interpreter ends the process with status 1
Propagate(f, r) == [pc |-> "raised", fam |-> f, reg |-> r, exit |-> 1]

TransformInit ==
    /\ IngestIdle
    /\ FnIdle
    /\ HttpIdle
    /\ SupIdle
    /\ ProfIdle
    /\ EntryIdle
    /\ rawFrames \in RawStores(NumPool)
    /\ tables = [d \in DatasetIds |-> NoTable]
    /\ tPc = "load"
    /\ fam = 1
    /\ reg = 1
    /\ table = EmptyFrame
    /\ exitCode = -1
    /\ tRuns = 1
    /\ started = <<>>
    /\ tested = {}
    /\ handed = <<>>
    /\ published = {}
    /\ testFailed = {}
    /\ raisedBy = "none"

\* run() lines 57-79: load and melt the variants, merge, standardize; the
\* slice is skipped (continue) when nothing was loaded or nothing is left
SliceLoad ==
    /\ tPc = "load"
    /\ UNCHANGED notTransformVars
    /\ started' = Append(started, CurSlice)
    /\ LET merged == SliceFrame(rawFrames, CurFamily, CurRegion)
       IN  IF IsEmpty(merged)
           THEN /\ tPc' = Advance(fam, reg).pc
                /\ fam' = Advance(fam, reg).fam
                /\ reg' = Advance(fam, reg).reg
                /\ exitCode' = Advance(fam, reg).exit
                /\ table' = EmptyFrame
           ELSE /\ tPc' = "test"
                /\ table' = merged
                /\ UNCHANGED <<fam, reg, exitCode>>
    /\ UNCHANGED <<rawFrames, tables, tRuns, tested, handed, published, testFailed,
                   raisedBy>>

\* run() line 82: test(table, region_type)
SliceTest ==
    /\ tPc = "test"
    /\ UNCHANGED notTransformVars
    /\ IF Test(table, CurFamily, CurRegion)
       THEN /\ tPc' = "upload"
            /\ tested' = tested \cup {CurSlice}
            /\ UNCHANGED <<fam, reg, exitCode, testFailed, raisedBy>>
       ELSE /\ tPc' = Propagate(fam, reg).pc
            /\ fam' = Propagate(fam, reg).fam
            /\ reg' = Propagate(fam, reg).reg
            /\ exitCode' = Propagate(fam, reg).exit
            /\ testFailed' = testFailed \cup {CurSlice}
            /\ raisedBy' = "test"
            /\ UNCHANGED tested
    /\ UNCHANGED <<rawFrames, tables, table, tRuns, started, handed, published>>

\* run() line 83: upload_data(table, dataset_id), mode "append" by default
SliceUpload ==
    /\ tPc = "upload"
    /\ UNCHANGED notTransformVars
    /\ handed' = Append(handed, [slice |-> CurSlice, dataset |-> CurDataset, table |-> table])
    /\ tables' = UploadData(tables, table, CurDataset, "append", "").store
    /\ tPc' = "publish"
    /\ UNCHANGED <<rawFrames, fam, reg, table, exitCode, tRuns, started, tested,
                   published, testFailed, raisedBy>>

\* run() line 84: publish(dataset_id, make_metadata(...))
SlicePublish ==
    /\ tPc = "publish"
    /\ UNCHANGED notTransformVars
    /\ LET result == Publish(tables[CurDataset],
                             MakeMetadata(CurFamily, CurRegion, table.columns))
       IN  IF result.raised
           THEN /\ tPc' = Propagate(fam, reg).pc
                /\ fam' = Propagate(fam, reg).fam
                /\ reg' = Propagate(fam, reg).reg
                /\ exitCode' = Propagate(fam, reg).exit
                /\ raisedBy' = "publish"
                /\ UNCHANGED <<tables, published>>
           ELSE /\ tables' = [tables EXCEPT ![CurDataset] = result.table]
                /\ published' = published \cup {CurSlice}
                /\ tPc' = Advance(fam, reg).pc
                /\ fam' = Advance(fam, reg).fam
                /\ reg' = Advance(fam, reg).reg
                /\ exitCode' = Advance(fam, reg).exit
                /\ UNCHANGED raisedBy
    /\ table' = IF tPc' = "raised" THEN table ELSE EmptyFrame
    /\ UNCHANGED <<rawFrames, tRuns, started, tested, handed, testFailed>>

\* the next run of the transform stage: a new process over the same raw
\* store and the tables written so far
TransformNextRun ==
    /\ tPc \in {"done", "raised"}
    /\ UNCHANGED notTransformVars
    /\ tRuns < MaxRuns
    /\ tRuns' = tRuns + 1
    /\ tPc' = "load"
    /\ fam' = 1
    /\ reg' = 1
    /\ table' = EmptyFrame
    /\ exitCode' = -1
    /\ started' = <<>>
    /\ tested' = {}
    /\ handed' = <<>>
    /\ published' = {}
    /\ testFailed' = {}
    /\ raisedBy' = "none"
    /\ UNCHANGED <<rawFrames, tables>>

TransformNext ==
    \/ SliceLoad
    \/ SliceTest
    \/ SliceUpload
    \/ SlicePublish
    \/ TransformNextRun

SpecTransform == TransformInit /\ [][TransformNext]_vars

(***************************************************************************)
(* Claims about the ingest stage (checked under SpecIngest).               *)
(***************************************************************************)
\* the pairs of the catalog whose key is not in the set S
PendingPairs(S) == {p \in Range(CatalogPairs) : KeyOf(p) \notin S}

\* C1: a run issues a GET for exactly the catalog pairs whose key is not in
\* the completed set of the state document it started from, each at most
\* once; when every pair is complete it issues no GET, saves no raw file and
\* does not write the state document.
C1_FetchExactlyPending ==
    /\ NoDuplicates(gets)
    /\ Range(gets) \subseteq PendingPairs(startCompleted)
    /\ pc = "done" => Range(gets) = PendingPairs(startCompleted)
    /\ (pc = "done" /\ CatalogKeys \subseteq startCompleted) =>
           /\ gets = <<>>
           /\ rawWrites = 0
           /\ stateWrites = 0

\* a finished run that skipped some pairs and fetched the others
C1_Witness ==
    /\ pc = "done"
    /\ startCompleted # {}
    /\ gets # <<>>
    /\ Len(gets) < Len(CatalogPairs)

\* C2 (as claimed): after a crash at any point of a run the persisted state
\* document is loadable and holds every pair complete at the start of the run
\* and every pair finished earlier in the run, except the pair in flight.
\* Stated for the runs in which no item raised.
C2_CrashKeepsProgress ==
    (pc = "crashed" /\ failed = {}) =>
        /\ Loadable(stateDoc)
        /\ (startCompleted \cup (finished \ {crashAt})) \subseteq stateDoc.completed

\* C3: an exception raised while one pair is processed never leaves run():
\* the run goes on, attempts every pending pair exactly once in catalog order
\* and ends normally, whatever subset of the items fails.
C3_FailuresDoNotAbort ==
    /\ pc = "raised" => (gets = <<>> /\ failed = {} /\ ~Loadable(stateDoc))
    /\ failed \subseteq Range(gets)
    /\ InLoop => gets = SubSeq(downloads, 1, IF pc = "get" THEN i - 1 ELSE i)
    /\ pc = "done" =>
           /\ gets = downloads
           /\ gets = SelectSeqBy(CatalogPairs, PendingPairs(startCompleted))

\* a finished run in which an item failed and a later item went through
C3_Witness ==
    /\ pc = "done"
    /\ \E a, b \in 1..Len(gets) :
          /\ a < b
          /\ gets[a] \in failed
          /\ KeyOf(gets[b]) \in finished
          /\ KeyOf(gets[b]) \in stateDoc.completed

(***************************************************************************)
(* Claims about the transform stage (checked under SpecTransform).         *)
(***************************************************************************)
\* the slices handed to upload_data in this run
HandedSlices == {handed[j].slice : j \in 1..Len(handed)}

\* the variants of the slice whose raw file is present
PresentVariants(f, r) ==
    {j \in 1..Len(VariantsOf(FAMILIES[f])) :
        RawLookup(rawFrames, RawName(VariantsOf(FAMILIES[f])[j][1], REGION_TYPES[r])).present}

\* every present raw file of the slice is a well-formed source file
SliceFilesGood(f, r) ==
    \A j \in PresentVariants(f, r) :
        RawLookup(rawFrames, RawName(VariantsOf(FAMILIES[f])[j][1], REGION_TYPES[r])).frame
            = GoodWide(REGION_TYPES[r])

\* slice a comes before slice b in the order main() processes them
SliceBefore(a, b) == a[1] < b[1] \/ (a[1] = b[1] /\ a[2] < b[2])

\* C4 (as claimed): after any sequence of transform runs the stored table of
\* every dataset holds at most one row per (date, region_id) pair. Stated
\* for the end of the runs that finish normally.
C4_UniqueKeysInStore ==
    tPc = "done" =>
        \A d \in DatasetIds :
            tables[d].exists => DuplicateCount(tables[d], <<"date", "region_id">>) = 0

\* C5: upload_data and then publish are called for a slice only after its
\* test() returned, every table handed to the store has no null date,
\* region_id or region_name and pairwise distinct (date, region_id), and a
\* slice whose validation raised is not written.
C5_UploadOnlyAfterTest ==
    /\ HandedSlices \subseteq tested
    /\ published \subseteq HandedSlices
    /\ tPc = "upload" => CurSlice \in tested
    /\ tPc = "publish" => CurSlice \in HandedSlices
    /\ \A j \in 1..Len(handed) :
          /\ \A c \in {"date", "region_id", "region_name"} : NullCount(handed[j].table, c) = 0
          /\ DuplicateCount(handed[j].table, <<"date", "region_id">>) = 0
    /\ \A s \in testFailed :
          /\ s \notin HandedSlices
          /\ ~tables[DatasetId(FAMILIES[s[1]], REGION_TYPES[s[2]])].exists

\* one slice was tested and uploaded, then the validation of another raised
\* and nothing was written for it
C5_Witness ==
    /\ raisedBy = "test"
    /\ Len(handed) = 1
    /\ handed[1].slice \in tested
    /\ tables[handed[1].dataset].rows = handed[1].table.rows
    /\ ~tables[CurDataset].exists

\* C6 (as claimed): a slice for which a non-empty strict subset of the
\* family's raw variant files is present, all of them well-formed, is
\* processed to completion: it never raises.
C6_PartialFamilyCompletes ==
    ~ /\ tPc = "raised"
      /\ PresentVariants(fam, reg) # {}
      /\ PresentVariants(fam, reg) # 1..Len(VariantsOf(CurFamily))
      /\ SliceFilesGood(fam, reg)

\* C7: when test() of a slice raises, the run ends there with a non-zero
\* exit status: the slice is neither uploaded nor published, no later slice
\* of the family and no later family is entered, and the slices uploaded
\* before it stay written.
C7_ValidationFailureAborts ==
    \A s \in testFailed :
        /\ tPc = "raised"
        /\ exitCode # 0 /\ exitCode # -1
        /\ s = CurSlice
        /\ started[Len(started)] = s
        /\ \A j \in 1..Len(started) : started[j] = s \/ SliceBefore(started[j], s)
        /\ s \notin HandedSlices
        /\ s \notin published
        /\ \A j \in 1..Len(handed) :
              /\ tables[handed[j].dataset].exists
              /\ \A a \in 1..Len(handed[j].table.rows) :
                    \E b \in 1..Len(tables[handed[j].dataset].rows) :
                        \A c \in Range(handed[j].table.columns) :
                            tables[handed[j].dataset].rows[b][c] = handed[j].table.rows[a][c]

\* the validation of a slice raised after an earlier slice was uploaded and
\* published, and a later slice has raw data that is never processed
C7_Witness ==
    /\ testFailed = {CurSlice}
    /\ published # {}
    /\ \E f \in 1..Len(FAMILIES), r \in 1..Len(REGION_TYPES) :
          /\ SliceBefore(CurSlice, <<f, r>>)
          /\ PresentVariants(f, r) # {}

\* the granularity of the j-th table handed to upload_data in this run
HandedRegion(j) == REGION_TYPES[handed[j].slice[2]]

\* C11: a table written for the granularity 'state' has no state_code
\* column; a table written for another granularity has no null region_name
\* and, when it has a state_code column, no null state_code (the empty
\* string stands for a missing state).
C11_StateCodeAndRegionName ==
    /\ \A j \in 1..Len(handed) :
          LET t == handed[j].table
          IN  IF HandedRegion(j) = "state"
              THEN "state_code" \notin Range(t.columns)
              ELSE \A a \in 1..Len(t.rows) :
                      /\ t.rows[a]["region_name"] # NA
                      /\ "state_code" \in Range(t.columns) => t.rows[a]["state_code"] # NA
    /\ \A f \in 1..Len(FAMILIES) :
          "state_code" \notin Range(tables[DatasetId(FAMILIES[f], "state")].columns)

\* a run wrote a metro table in which a missing state became the empty
\* string, then a state table
C11_Witness ==
    \E j, k \in 1..Len(handed) :
        /\ HandedRegion(j) = "metro"
        /\ \E a \in 1..Len(handed[j].table.rows) : handed[j].table.rows[a]["state_code"] = ""
        /\ HandedRegion(k) = "state"
        /\ tables[handed[k].dataset].exists

(***************************************************************************)
(* upload_data on bounded tables and stores (SpecUpload).                  *)
(***************************************************************************)
\* the columns of the tables given to upload_data
UploadColumns == <<"date", "region_id", "rent">>

\* the rows of those tables
UploadRows ==
    {[date |-> "2020-01-31", region_id |-> id, rent |-> v] :
        id \in {"101", "102"}, v \in {"100.5", "200.5"}}

\* the tables of at most n rows
UploadTables(n) ==
    {[columns |-> UploadColumns, rows |-> rs] : rs \in SeqsUpTo(UploadRows, n)}

\* the calls upload_data(data, "x", mode=mode, merge_key=merge_key) over a
\* store in which dataset x has no table or a table of at most n rows
UploadInputs(n) ==
    {[store |-> [d \in {"x"} |-> prior], data |-> data, mode |-> mode,
      merge_key |-> merge_key] :
        prior \in {NoTable} \cup {[exists |-> TRUE, columns |-> t.columns, rows |-> t.rows,
                                    description |-> NoDescription] : t \in UploadTables(n)},
        data \in UploadTables(n),
        mode \in {"append", "overwrite", "merge", "upsert"},
        merge_key \in {"", "region_id"}}

UploadInit ==
    /\ IngestIdle
    /\ TransformIdle
    /\ HttpIdle
    /\ SupIdle
    /\ ProfIdle
    /\ EntryIdle
    /\ fnPc = "input"
    /\ fnInput \in UploadInputs(MaxUploadRows)
    /\ fnOutput = EmptyFrame

\* upload_data(data, "x", mode=mode, merge_key=merge_key)
CallUploadData ==
    /\ fnPc = "input"
    /\ fnOutput' = UploadData(fnInput.store, fnInput.data, "x", fnInput.mode,
                              fnInput.merge_key)
    /\ fnPc' = "uploaded"
    /\ UNCHANGED <<fnInput, notFnVars>>

UploadNext == CallUploadData

SpecUpload == UploadInit /\ [][UploadNext]_vars

\* C12 (as claimed): after upload_data(T, x, mode='overwrite') returns, the
\* stored table x holds exactly the rows of T, whatever T (also of zero
\* rows) and whatever x held before.
C12_OverwriteReplaces ==
    (fnPc = "uploaded" /\ fnInput.mode = "overwrite" /\ ~fnOutput.raised) =>
        fnOutput.store["x"].rows = fnInput.data.rows

\* C13: upload_data with mode 'merge' and no merge_key, or with a mode that
\* is not append, overwrite or merge, raises ValueError before it reads or
\* writes the table store or the log sink; the stored tables are unchanged.
C13_ModeErrorBeforeIO ==
    (fnPc = "uploaded"
       /\ (fnInput.mode \notin {"append", "overwrite", "merge"}
             \/ (fnInput.mode = "merge" /\ fnInput.merge_key = ""))) =>
        /\ fnOutput.raised
        /\ fnOutput.io = <<>>
        /\ fnOutput.store = fnInput.store

\* a merge without merge_key of a non-empty table into a non-empty table
\* raised
C13_Witness ==
    /\ fnPc = "uploaded"
    /\ fnInput.mode = "merge"
    /\ fnInput.merge_key = ""
    /\ Len(fnInput.data.rows) = 2
    /\ Len(fnInput.store["x"].rows) = 1
    /\ fnOutput.raised

(***************************************************************************)
(* publish on bounded tables and metadata (SpecPublish).                   *)
(***************************************************************************)
\* column names of tables and of column_descriptions
PublishColumns == <<"date", "region_id", "rent", "condo", "bed_1">>

\* the metadata dicts: any of the keys id, title and column_descriptions may
\* be missing, column_descriptions describes any set of the first n columns
PublishMetadata(n) ==
    {[k \in keys |-> IF k = "column_descriptions" THEN described
                     ELSE IF k = "id" THEN "x" ELSE "X by region"] :
        keys \in SUBSET {"id", "title", "column_descriptions"},
        described \in SUBSET Range(SubSeq(PublishColumns, 1, n))}

\* the Delta table of the dataset: none, or one whose schema is a prefix of
\* the first n columns, with or without a description set earlier
PublishTables(n) ==
    {NoTable}
    \cup {[exists |-> TRUE, columns |-> SubSeq(PublishColumns, 1, k), rows |-> <<>>,
           description |-> d] :
            k \in 1..n,
            d \in {NoDescription, [id |-> "x", title |-> "old", column_descriptions |-> {}]}}

PublishInit ==
    /\ IngestIdle
    /\ TransformIdle
    /\ HttpIdle
    /\ SupIdle
    /\ ProfIdle
    /\ EntryIdle
    /\ fnPc = "input"
    /\ fnInput \in {[stored |-> t, metadata |-> m] :
                       t \in PublishTables(NumPublishCols),
                       m \in PublishMetadata(NumPublishCols)}
    /\ fnOutput = EmptyFrame

\* publish("x", metadata)
CallPublish ==
    /\ fnPc = "input"
    /\ fnOutput' = Publish(fnInput.stored, fnInput.metadata)
    /\ fnPc' = "published"
    /\ UNCHANGED <<fnInput, notFnVars>>

PublishNext == CallPublish

SpecPublish == PublishInit /\ [][PublishNext]_vars

\* the described columns that the table of the call does not have
AbsentDescribed ==
    IF "column_descriptions" \in DOMAIN fnInput.metadata
    THEN {c \in fnInput.metadata.column_descriptions :
             \A j \in 1..Len(fnInput.stored.columns) : fnInput.stored.columns[j] # c}
    ELSE {}

-----------------------------------------------------------------------------
\* The HTTP fetch layer: subsets_utils/http_client.py.  Elapsed time is not
\* modelled, so a row of http_requests.csv is (method, url, status, error).

\* the on-disk cache holds nothing under a key
NoEntry == [kind |-> "none"]

\* the requests the callers make; params is "none" (no params argument),
\* or "k" (the one-item mapping {"k": "v"})
Requests ==
    { [method |-> "GET",  url |-> "https://h/a", params |-> "k"],
      [method |-> "GET",  url |-> "https://h/a[[\"k\", \"v\"]]", params |-> "none"],
      [method |-> "POST", url |-> "https://h/a", params |-> "none"] }

\* no network attempt was made
NoAnswer == [kind |-> "none"]

\* what the network does with one attempt: a response, or a transport error
NetAnswers ==
    { [kind |-> "response", status |-> 200, body |-> "b1"],
      [kind |-> "response", status |-> 200, body |-> "b2"],
      [kind |-> "response", status |-> 404, body |-> "b1"],
      [kind |-> "error", error |-> "ConnectError"] }

\* json.dumps(sorted(params.items()))
ParamsJson(params) == IF params = "k" THEN "[[\"k\", \"v\"]]" ELSE "[]"

\* the text that is hashed: the parts joined with no separator, the params
\* part only for a non-empty mapping
CacheKey(method, url, params) ==
    IF params = "none" THEN method \o url
    ELSE method \o url \o ParamsJson(params)

CacheGetMiss(files, key) == NoEntry

\* CacheManager.get: the stored response when both files exist, else None
CacheGet(files, key) ==
    IF key \in DOMAIN files
    THEN [kind |-> "entry", status |-> files[key].status, body |-> files[key].body]
    ELSE NoEntry

\* CacheManager.save: content file and metadata sidecar under the key
CacheSave(files, key, response) ==
    [k \in DOMAIN files \cup {key} |->
        IF k = key THEN [status |-> response.status, body |-> response.body]
        ELSE files[k]]

ShouldSaveAny(enabled, status) == enabled

\* the guard of the save in CachedClient.request
ShouldSave(enabled, status) == enabled /\ status < 400

\* httpx.Client.request: one attempt, the response or the raised error;
\* status -1 stands for None
BaseRequest(files, answer) ==
    IF answer.kind = "error"
    THEN [raised |-> TRUE, error |-> answer.error, status |-> -1, body |-> "",
          net |-> 1, reads |-> 0, writes |-> 0, cache |-> files]
    ELSE [raised |-> FALSE, error |-> "", status |-> answer.status,
          body |-> answer.body, net |-> 1, reads |-> 0, writes |-> 0,
          cache |-> files]

\* CachedClient.request
CachedRequest(enabled, files, req, answer) ==
    LET key == CacheKey(req.method, req.url, req.params)
        cached == IF enabled THEN CacheGet(files, key) ELSE NoEntry
        reads == IF enabled THEN 1 ELSE 0
        fresh == BaseRequest(files, answer)
    IN  IF cached # NoEntry
        THEN [raised |-> FALSE, error |-> "", status |-> cached.status,
              body |-> cached.body, net |-> 0, reads |-> reads, writes |-> 0,
              cache |-> files]
        ELSE IF fresh.raised
        THEN [fresh EXCEPT !.reads = reads]
        ELSE IF ShouldSave(enabled, fresh.status)
        THEN [fresh EXCEPT !.reads = reads, !.writes = 1,
                           !.cache = CacheSave(files, key, answer)]
        ELSE [fresh EXCEPT !.reads = reads]

\* client.request for the client object in use
ClientRequest(cl, enabled, files, req, answer) ==
    IF cl = "cached" THEN CachedRequest(enabled, files, req, answer)
    ELSE BaseRequest(files, answer)

\* _get_or_create_client: override is "unset", "true" or "false"
GetOrCreateClient(cl, enabled, override) ==
    IF cl # "none" THEN cl
    ELSE IF (override = "true") \/ (override = "unset" /\ enabled)
    THEN "cached"
    ELSE "base"

LogHttpRequestNever(log, logging, entry) == log

\* debug.log_http_request: a row is appended only when logging is enabled
LogHttpRequest(log, logging, entry) ==
    IF logging THEN Append(log, entry) ELSE log

\* a mapping extended or overwritten at one point
Stored(history, req, response) ==
    [q \in DOMAIN history \cup {req} |->
        IF q = req THEN [status |-> response.status, body |-> response.body]
        ELSE history[q]]

HttpInit ==
    /\ cacheEnabled \in BOOLEAN
    /\ loggingEnabled \in BOOLEAN
    /\ client = "none"
    /\ cache = <<>>
    /\ httpLog = <<>>
    /\ calls = 0
    /\ storedBy = <<>>
    /\ hCall = NoCall
    /\ IngestIdle
    /\ FnIdle
    /\ TransformIdle
    /\ SupIdle
    /\ ProfIdle
    /\ EntryIdle

\* configure_http(cache_enabled=b)
ConfigureHttp ==
    /\ \E b \in BOOLEAN :
        /\ cacheEnabled' = b
        /\ client' = "none"
    /\ UNCHANGED <<loggingEnabled, cache, httpLog, calls, storedBy, hCall>>
    /\ UNCHANGED notHttpVars

\* get_client(**overrides) before any client exists
GetClient ==
    /\ client = "none"
    /\ \E override \in {"unset", "true", "false"} :
        client' = GetOrCreateClient(client, cacheEnabled, override)
    /\ UNCHANGED <<cacheEnabled, loggingEnabled, cache, httpLog, calls,
                   storedBy, hCall>>
    /\ UNCHANGED notHttpVars

\* get / post / put / delete: _logged_request
LoggedRequest ==
    /\ calls < MaxCalls
    /\ \E req \in Requests, answer \in NetAnswers :
        LET cl == GetOrCreateClient(client, cacheEnabled, "unset")
            r == ClientRequest(cl, cacheEnabled, cache, req, answer)
            attempt == IF r.net = 1 THEN answer ELSE NoAnswer
            entry == [method |-> req.method, url |-> req.url,
                      status |-> r.status, error |-> r.error]
            log == LogHttpRequest(httpLog, loggingEnabled, entry)
        IN  /\ client' = cl
            /\ cache' = r.cache
            /\ httpLog' = log
            /\ calls' = calls + 1
            /\ storedBy' = IF r.writes = 1 THEN Stored(storedBy, req, answer)
                           ELSE storedBy
            /\ hCall' = [kind |-> "call", req |-> req, answer |-> attempt,
                         enabled |-> (cacheEnabled /\ cl = "cached"),
                         prior |-> IF req \in DOMAIN storedBy
                                   THEN [kind |-> "entry",
                                         status |-> storedBy[req].status,
                                         body |-> storedBy[req].body]
                                   ELSE NoEntry,
                         cacheBefore |-> cache,
                         result |-> [r EXCEPT !.cache = <<>>],
                         entry |-> entry,
                         logged |-> Len(log) - Len(httpLog),
                         prev |-> IF hCall = NoCall THEN NoCall
                                  ELSE [kind |-> "call", req |-> hCall.req,
                                        enabled |-> hCall.enabled,
                                        status |-> hCall.result.status,
                                        net |-> hCall.result.net]]
    /\ UNCHANGED <<cacheEnabled, loggingEnabled>>
    /\ UNCHANGED notHttpVars

HttpNext == ConfigureHttp \/ GetClient \/ LoggedRequest

SpecHttp == HttpInit /\ [][HttpNext]_vars

\* the last call was made with caching in effect and its request had an
\* answer saved earlier
RepeatOfStored ==
    /\ hCall # NoCall
    /\ hCall.enabled
    /\ hCall.prior # NoEntry

\* C15: with caching enabled, a request whose answer (status < 400) was saved
\* earlier is answered with the saved status and body and makes no network
\* call, however often it is repeated
C15_CachedRequestReplays ==
    RepeatOfStored =>
        /\ ~hCall.result.raised
        /\ hCall.result.status = hCall.prior.status
        /\ hCall.result.body = hCall.prior.body
        /\ hCall.result.net = 0

\* the same request three times: saved by the first call, replayed twice
C15_Witness ==
    /\ calls = 3
    /\ loggingEnabled
    /\ Len(httpLog) = 3
    /\ RepeatOfStored
    /\ hCall.prev.req = hCall.req
    /\ hCall.prev.net = 0
    /\ hCall.answer = NoAnswer
    /\ hCall.result.status = 200
    /\ hCall.result.body = "b2"

\* C16: every cache entry has status < 400; an answer with status >= 400 is
\* returned and leaves the cache as it was, so the same request made next goes
\* to the network; without caching in effect the cache is not read or written
C16_OnlySuccessesCached ==
    /\ \A key \in DOMAIN cache : cache[key].status < 400
    /\ (hCall # NoCall /\ hCall.result.status >= 400) =>
          /\ ~hCall.result.raised
          /\ hCall.result.status = hCall.answer.status
          /\ hCall.result.writes = 0
          /\ cache = hCall.cacheBefore
    /\ (hCall # NoCall /\ hCall.prev # NoCall /\ hCall.prev.enabled
          /\ hCall.prev.status >= 400 /\ hCall.prev.req = hCall.req) =>
          hCall.result.net = 1
    /\ (hCall # NoCall /\ ~hCall.enabled) =>
          /\ hCall.result.reads = 0
          /\ hCall.result.writes = 0
          /\ cache = hCall.cacheBefore

\* a 404 with caching in effect, then the same request again: it reaches the
\* network, and this time the answer is saved
C16_Witness ==
    /\ hCall # NoCall
    /\ hCall.prev # NoCall
    /\ hCall.prev.enabled
    /\ hCall.prev.status = 404
    /\ hCall.prev.req = hCall.req
    /\ hCall.result.net = 1
    /\ hCall.result.writes = 1

\* what the claim says of a transport error: one attempt, the error raised
\* as it came
ErrorPropagates ==
    (hCall # NoCall /\ hCall.result.net = 1 /\ hCall.answer.kind = "error") =>
        /\ hCall.result.raised
        /\ hCall.result.error = hCall.answer.error

\* the row the call should leave in http_requests.csv
RowWritten ==
    /\ hCall.logged = 1
    /\ httpLog[Len(httpLog)] = hCall.entry
    /\ hCall.entry.method = hCall.req.method
    /\ hCall.entry.url = hCall.req.url
    /\ hCall.entry.status = hCall.result.status
    /\ hCall.entry.error = hCall.result.error

\* C17 as stated: every call of get/post/put/delete, answered from the cache,
\* from the network, or failing with a transport error, leaves a log row, and a
\* transport error is raised unchanged after exactly one attempt
C17_EveryCallLogged ==
    /\ (hCall # NoCall) => RowWritten
    /\ ErrorPropagates

\* C17 amended: with logging enabled (ENABLE_LOGGING=true) every call leaves
\* its log row; with logging disabled no row is written; in both cases a
\* transport error is raised unchanged after exactly one attempt
C17_EveryCallLoggedWhenEnabled ==
    /\ (hCall # NoCall /\ loggingEnabled) => RowWritten
    /\ (hCall # NoCall /\ ~loggingEnabled) => (hCall.logged = 0 /\ httpLog = <<>>)
    /\ (hCall # NoCall) => hCall.result.net <= 1
    /\ ErrorPropagates

\* logging enabled: a replayed answer, then a transport error, both logged
C17_Witness ==
    /\ loggingEnabled
    /\ Len(httpLog) = 3
    /\ hCall # NoCall
    /\ hCall.result.raised
    /\ hCall.result.error = "ConnectError"
    /\ httpLog[3].error = "ConnectError"
    /\ httpLog[3].status = -1
    /\ hCall.prev.net = 0

-----------------------------------------------------------------------------
\* The run supervisor: subsets_utils/runner.py, main().

\* write_error_log: tail_lines
TAIL_LINES == 100

\* handle_sigterm: process.wait(timeout=10)
GRACE_SECONDS == 10

\* signal numbers
SIGKILL == 9
SIGTERM == 15

\* codes the pipeline process exits with on its own
ChildExitCodes == {0, 1, 137, 143}

\* Popen.returncode of a child ended by signal signum
SignalReturncode(signum) == 0 - signum

\* the lines numbered from + 1 .. from + n
LinesFrom(from, n) == [j \in 1..n |-> from + j]

ClassifyZeroOrFailed(code) == IF code = 0 THEN "completed" ELSE "failed"

\* main(): the status chosen by the if / elif chain over exit_code
Classify(code) ==
    IF code = 0 THEN "completed"
    ELSE IF code = 137 THEN "oom"
    ELSE IF code = 143 THEN "timeout"
    ELSE "failed"

\* write_error_log: exit code and the last tail_lines lines of output.log
WriteErrorLog(code, lines, tail_lines) ==
    [kind |-> "file", code |-> code,
     lines |-> IF Len(lines) > tail_lines
               THEN SubSeq(lines, Len(lines) - tail_lines + 1, Len(lines))
               ELSE lines]

\* debug.log_run_start / log_run_end: a row of runs.csv when logging is enabled
LogRunEvent(log, logging, event, status) ==
    IF logging THEN Append(log, [event |-> event, status |-> status]) ELSE log

\* sys.exit(code): the exit status the parent of the supervisor observes
ExitStatus(code) == code % 256

SupInit ==
    /\ sCloud \in BOOLEAN
    /\ sLogging \in BOOLEAN
    /\ sPc = "start"
    /\ hPc = "idle"
    /\ graceTicks = 0
    /\ child = "none"
    /\ returncode = 0
    /\ childTerm = FALSE
    /\ childKill = FALSE
    /\ outLog = <<>>
    /\ chunks = 0
    /\ signals = 0
    /\ exit_code = 0
    /\ endStatus = ""
    /\ runLog = <<>>
    /\ errorTxt = NoFile
    /\ uploaded = "no"
    /\ supStatus = -1
    /\ termSeen = FALSE
    /\ termSent = FALSE
    /\ killSent = FALSE
    /\ IngestIdle
    /\ FnIdle
    /\ TransformIdle
    /\ HttpIdle
    /\ ProfIdle
    /\ EntryIdle

\* main(): log directory, debug.log_run_start()
LogRunStart ==
    /\ sPc = "start"
    /\ sPc' = "launch"
    /\ runLog' = LogRunEvent(runLog, sLogging, "start", "")
    /\ UNCHANGED <<sCloud, sLogging, hPc, graceTicks, child, returncode,
                   childTerm, childKill, outLog, chunks, signals, exit_code,
                   endStatus, errorTxt, uploaded, supStatus, termSeen,
                   termSent, killSent>>
    /\ UNCHANGED notSupVars

\* main(): subprocess.Popen, profiler start
Launch ==
    /\ sPc = "launch"
    /\ sPc' = "install"
    /\ child' = "running"
    /\ UNCHANGED <<sCloud, sLogging, hPc, graceTicks, returncode, childTerm,
                   childKill, outLog, chunks, signals, exit_code, endStatus,
                   runLog, errorTxt, uploaded, supStatus, termSeen, termSent,
                   killSent>>
    /\ UNCHANGED notSupVars

\* main(): signal.signal(signal.SIGTERM, handle_sigterm)
InstallHandler ==
    /\ sPc = "install"
    /\ sPc' = "stream"
    /\ UNCHANGED <<sCloud, sLogging, hPc, graceTicks, child, returncode,
                   childTerm, childKill, outLog, chunks, signals, exit_code,
                   endStatus, runLog, errorTxt, uploaded, supStatus, termSeen,
                   termSent, killSent>>
    /\ UNCHANGED notSupVars

\* main(): the loop over process.stdout copies a burst of lines the child wrote
CopyLines ==
    /\ sPc = "stream"
    /\ hPc = "idle"
    /\ child = "running"
    /\ chunks < MaxChunks
    /\ \E n \in {1, TAIL_LINES} :
        outLog' = outLog \o LinesFrom(Len(outLog), n)
    /\ chunks' = chunks + 1
    /\ UNCHANGED <<sCloud, sLogging, sPc, hPc, graceTicks, child, returncode,
                   childTerm, childKill, signals, exit_code, endStatus, runLog,
                   errorTxt, uploaded, supStatus, termSeen, termSent, killSent>>
    /\ UNCHANGED notSupVars

\* main(): KeyboardInterrupt inside the loop: process.terminate()
Interrupt ==
    /\ sPc = "stream"
    /\ hPc = "idle"
    /\ sPc' = "wait"
    /\ termSent' = (termSent \/ child = "running")
    /\ childTerm' = (childTerm \/ child = "running")
    /\ UNCHANGED <<sCloud, sLogging, hPc, graceTicks, child, returncode,
                   childKill, outLog, chunks, signals, exit_code, endStatus,
                   runLog, errorTxt, uploaded, supStatus, termSeen, killSent>>
    /\ UNCHANGED notSupVars

\* main(): the loop over process.stdout ends when the child's end closes the pipe
ReadEof ==
    /\ sPc = "stream"
    /\ hPc = "idle"
    /\ child = "dead"
    /\ sPc' = "wait"
    /\ UNCHANGED <<sCloud, sLogging, hPc, graceTicks, child, returncode,
                   childTerm, childKill, outLog, chunks, signals, exit_code,
                   endStatus, runLog, errorTxt, uploaded, supStatus, termSeen,
                   termSent, killSent>>
    /\ UNCHANGED notSupVars

\* main(): exit_code = process.wait()
ProcessWait ==
    /\ sPc = "wait"
    /\ hPc = "idle"
    /\ child = "dead"
    /\ sPc' = "handle"
    /\ exit_code' = returncode
    /\ UNCHANGED <<sCloud, sLogging, hPc, graceTicks, child, returncode,
                   childTerm, childKill, outLog, chunks, signals, endStatus,
                   runLog, errorTxt, uploaded, supStatus, termSeen, termSent,
                   killSent>>
    /\ UNCHANGED notSupVars

\* main(): exit handling, from profiler.stop() to sys.exit(exit_code)
ExitHandling ==
    /\ sPc = "handle"
    /\ hPc = "idle"
    /\ sPc' = "exit"
    /\ endStatus' = Classify(exit_code)
    /\ runLog' = LogRunEvent(runLog, sLogging, "end", Classify(exit_code))
    /\ errorTxt' = IF exit_code = 0 THEN errorTxt
                   ELSE WriteErrorLog(exit_code, outLog, TAIL_LINES)
    /\ IF sCloud
       THEN \E ok \in BOOLEAN : uploaded' = IF ok THEN "ok" ELSE "failed"
       ELSE uploaded' = uploaded
    /\ supStatus' = ExitStatus(exit_code)
    /\ UNCHANGED <<sCloud, sLogging, hPc, graceTicks, child, returncode,
                   childTerm, childKill, outLog, chunks, signals, exit_code,
                   termSeen, termSent, killSent>>
    /\ UNCHANGED notSupVars

\* a SIGTERM reaches the supervisor: before signal.signal() the default
\* disposition ends the supervisor; afterwards handle_sigterm runs on the main
\* thread: process.terminate(), then process.wait(timeout=10)
Sigterm ==
    /\ sPc \in {"start", "launch", "install", "stream", "wait", "handle"}
    /\ hPc = "idle"
    /\ signals < MaxSignals
    /\ signals' = signals + 1
    /\ termSeen' = (termSeen \/ child = "running")
    /\ IF sPc \in {"start", "launch", "install"}
       THEN /\ sPc' = "killed"
            /\ UNCHANGED <<hPc, graceTicks, childTerm, termSent>>
       ELSE /\ sPc' = sPc
            /\ termSent' = (termSent \/ child = "running")
            /\ childTerm' = (childTerm \/ child = "running")
            /\ hPc' = IF child = "running" THEN "waiting" ELSE "idle"
            /\ graceTicks' = 0
    /\ UNCHANGED <<sCloud, sLogging, child, returncode, childKill, outLog,
                   chunks, exit_code, endStatus, runLog, errorTxt, uploaded,
                   supStatus, killSent>>
    /\ UNCHANGED notSupVars

\* one second passes in the handler's process.wait(timeout=10); while the main
\* thread is inside process.wait() it holds the Popen wait lock, and the
\* handler's wait cannot see the child's end
Tick ==
    /\ hPc = "waiting"
    /\ graceTicks < GRACE_SECONDS
    /\ child = "running" \/ sPc = "wait"
    /\ graceTicks' = graceTicks + 1
    /\ UNCHANGED <<sCloud, sLogging, sPc, hPc, child, returncode, childTerm,
                   childKill, outLog, chunks, signals, exit_code, endStatus,
                   runLog, errorTxt, uploaded, supStatus, termSeen, termSent,
                   killSent>>
    /\ UNCHANGED notSupVars

\* handle_sigterm: process.wait(timeout=10) returns, the child has ended
HandlerReturn ==
    /\ hPc = "waiting"
    /\ child = "dead"
    /\ sPc # "wait"
    /\ hPc' = "idle"
    /\ UNCHANGED <<sCloud, sLogging, sPc, graceTicks, child, returncode,
                   childTerm, childKill, outLog, chunks, signals, exit_code,
                   endStatus, runLog, errorTxt, uploaded, supStatus, termSeen,
                   termSent, killSent>>
    /\ UNCHANGED notSupVars

\* handle_sigterm: TimeoutExpired, process.kill()
HandlerTimeout ==
    /\ hPc = "waiting"
    /\ graceTicks = GRACE_SECONDS
    /\ child = "running" \/ sPc = "wait"
    /\ hPc' = "idle"
    /\ killSent' = TRUE
    /\ childKill' = (childKill \/ child = "running")
    /\ UNCHANGED <<sCloud, sLogging, sPc, graceTicks, child, returncode,
                   childTerm, outLog, chunks, signals, exit_code, endStatus,
                   runLog, errorTxt, uploaded, supStatus, termSeen, termSent>>
    /\ UNCHANGED notSupVars

\* the pipeline process ends on its own with an exit code
ChildExit ==
    /\ child = "running"
    /\ child' = "dead"
    /\ \E code \in ChildExitCodes : returncode' = code
    /\ UNCHANGED <<sCloud, sLogging, sPc, hPc, graceTicks, childTerm,
                   childKill, outLog, chunks, signals, exit_code, endStatus,
                   runLog, errorTxt, uploaded, supStatus, termSeen, termSent,
                   killSent>>
    /\ UNCHANGED notSupVars

\* the pipeline process dies of the pending SIGTERM
ChildTerminated ==
    /\ child = "running"
    /\ childTerm
    /\ child' = "dead"
    /\ returncode' = SignalReturncode(SIGTERM)
    /\ UNCHANGED <<sCloud, sLogging, sPc, hPc, graceTicks, childTerm,
                   childKill, outLog, chunks, signals, exit_code, endStatus,
                   runLog, errorTxt, uploaded, supStatus, termSeen, termSent,
                   killSent>>
    /\ UNCHANGED notSupVars

\* the pipeline process dies of the pending SIGKILL
ChildKilled ==
    /\ child = "running"
    /\ childKill
    /\ child' = "dead"
    /\ returncode' = SignalReturncode(SIGKILL)
    /\ UNCHANGED <<sCloud, sLogging, sPc, hPc, graceTicks, childTerm,
                   childKill, outLog, chunks, signals, exit_code, endStatus,
                   runLog, errorTxt, uploaded, supStatus, termSeen, termSent,
                   killSent>>
    /\ UNCHANGED notSupVars

\* the kernel's out-of-memory killer ends the pipeline process with SIGKILL
OomKilled ==
    /\ child = "running"
    /\ ~childKill
    /\ child' = "dead"
    /\ returncode' = SignalReturncode(SIGKILL)
    /\ UNCHANGED <<sCloud, sLogging, sPc, hPc, graceTicks, childTerm,
                   childKill, outLog, chunks, signals, exit_code, endStatus,
                   runLog, errorTxt, uploaded, supStatus, termSeen, termSent,
                   killSent>>
    /\ UNCHANGED notSupVars

\* the steps of the supervisor's own thread
SupervisorStep ==
    \/ LogRunStart
    \/ Launch
    \/ InstallHandler
    \/ ReadEof
    \/ ProcessWait
    \/ ExitHandling
    \/ Tick
    \/ HandlerReturn
    \/ HandlerTimeout

SupNext ==
    \/ SupervisorStep
    \/ CopyLines
    \/ Interrupt
    \/ Sigterm
    \/ ChildExit
    \/ ChildTerminated
    \/ ChildKilled
    \/ OomKilled

\* a running supervisor keeps executing, time passes, and the kernel delivers
\* a pending SIGKILL; nothing obliges the child to end on its own or to die
\* of a SIGTERM
SpecSupervisor ==
    /\ SupInit
    /\ [][SupNext]_vars
    /\ WF_vars(SupervisorStep)
    /\ WF_vars(ChildKilled)

\* C18: however the child ends and whatever the log upload does, the
\* supervisor's exit status equals the child's exit code; the upload is
\* attempted before the exit in cloud mode and not attempted in local mode
C18_ExitStatusIsChildCode ==
    (sPc = "exit") =>
        /\ supStatus = returncode
        /\ sCloud => uploaded \in {"ok", "failed"}
        /\ ~sCloud => uploaded = "no"

\* the last lines of output.log that error.txt may hold
ExpectedTail ==
    LET n == IF Len(outLog) < 100 THEN Len(outLog) ELSE 100
    IN  [j \in 1..n |-> outLog[Len(outLog) - n + j]]

\* C19: the status handed to the run log depends on the child's exit code
\* alone: 0 completed, 137 oom, 143 timeout, anything else failed; error.txt,
\* holding the code and at most the last 100 output lines, exists exactly when
\* the code is not 0
C19_StatusFromExitCode ==
    (sPc = "exit") =>
        /\ exit_code = returncode
        /\ (exit_code = 0) => endStatus = "completed"
        /\ (exit_code = 137) => endStatus = "oom"
        /\ (exit_code = 143) => endStatus = "timeout"
        /\ (exit_code \notin {0, 137, 143}) => endStatus = "failed"
        /\ sLogging => runLog[Len(runLog)] = [event |-> "end", status |-> endStatus]
        /\ (exit_code = 0) <=> (errorTxt = NoFile)
        /\ (exit_code # 0) =>
              /\ errorTxt.code = exit_code
              /\ Len(errorTxt.lines) <= 100
              /\ errorTxt.lines = ExpectedTail

\* the child wrote 101 lines and exited with 137: status oom, and error.txt
\* holds lines 2 to 101
C19_Witness ==
    /\ sPc = "exit"
    /\ exit_code = 137
    /\ endStatus = "oom"
    /\ Len(outLog) = 101
    /\ errorTxt # NoFile
    /\ Len(errorTxt.lines) = 100
    /\ errorTxt.lines[1] = 2

\* C20: a SIGTERM that reaches the supervisor while the child exists makes the
\* supervisor terminate the child, wait at most 10 seconds and kill it if it
\* still runs; after that the child is eventually dead and the supervisor
\* eventually finishes its exit handling and exits
C20_SigtermStopsChild ==
    /\ [](termSeen => termSent)
    /\ [](graceTicks <= 10)
    /\ [](killSent => graceTicks = 10)
    /\ termSeen ~> (child = "dead" /\ sPc = "exit")

\* the rows of runs.csv that record a run end
EndRows == SelectSeq(runLog, LAMBDA r : r.event = "end")

\* the statuses a finished run can have
TerminalStatuses == {"completed", "failed", "timeout", "oom"}

\* C21: a supervisor run goes from not started over running to exactly one of
\* completed, failed, timeout, oom: the run start is recorded before the child
\* is launched, an end is recorded at most once, only after a start and only
\* when the child has ended, a finished supervisor has recorded exactly one
\* end, and a launched child leads to a recorded terminal status
C21_RunLifecycle ==
    /\ [](child # "none" =>
            /\ runLog # <<>>
            /\ runLog[1] = [event |-> "start", status |-> ""])
    /\ [](Len(EndRows) <= 1)
    /\ [](EndRows # <<>> =>
            /\ child = "dead"
            /\ runLog[1].event = "start"
            /\ EndRows[1].status \in TerminalStatuses)
    /\ [](sPc = "exit" => Len(EndRows) = 1)
    /\ (child = "running") ~>
            (Len(EndRows) = 1 /\ endStatus \in TerminalStatuses)

\* ---------------------------------------------------------------------------
\* The memory profiler: runner.py, the sampler thread of MemoryProfiler beside
\* the main thread of main() from Popen to sys.exit
\* ---------------------------------------------------------------------------

\* lines the child writes in one run
MaxLines == 2

\* rows the sampler appends before it only waits for stop()
MaxSamples == 2

\* what sys.stdout receives: a line of the child copied by the main thread,
\* or the sampler's warning that psutil is missing
ChildLine(n) == [src |-> "child", n |-> n]
PsutilWarning == [src |-> "sampler", n |-> 0]

\* the child's lines on the console, in order
ConsoleLines ==
    LET own == SelectSeq(console, LAMBDA e : e.src = "child")
    IN  [j \in 1..Len(own) |-> own[j].n]

SinkOrderFileFirst == <<"file", "console">>

\* the loop body: sys.stdout.write(line), then log_f.write(line)
SinkOrder == <<"console", "file">>

\* "s is a prefix of t"
IsPrefix(s, t) ==
    /\ Len(s) <= Len(t)
    /\ \A j \in 1..Len(s) : s[j] = t[j]

\* the main thread is past profiler.stop()
StopReturned == pMain \in {"handle", "upload", "exit"}

\* the sampler thread can still run: sys.exit ends the daemon thread
SamplerAlive == smp \notin {"none", "done"} /\ pMain # "exit"

ProfInit ==
    /\ pCloud \in BOOLEAN
    /\ psutilOk \in BOOLEAN
    /\ pMain = "popen"
    /\ pChild = "running"
    /\ pipe = <<>>
    /\ nWritten = 0
    /\ nRead = 0
    /\ line = 0
    /\ sink = 0
    /\ console = <<>>
    /\ outputLog = <<>>
    /\ smp = "none"
    /\ stopEvent = FALSE
    /\ memoryCsv = <<>>
    /\ wrote = {}
    /\ runEnd = FALSE
    /\ uploadedCsv = NoFile
    /\ IngestIdle
    /\ FnIdle
    /\ TransformIdle
    /\ HttpIdle
    /\ SupIdle
    /\ EntryIdle

\* main(): profiler = MemoryProfiler(process.pid, log_dir); profiler.start()
ProfilerStart ==
    /\ pMain = "popen"
    /\ pMain' = "stream"
    /\ smp' = "import"
    /\ UNCHANGED <<pCloud, psutilOk, pChild, pipe, nWritten, nRead, line, sink,
                   console, outputLog, stopEvent, memoryCsv, wrote, runEnd,
                   uploadedCsv>>
    /\ UNCHANGED notProfVars

\* main(): for line in process.stdout
ReadLine ==
    /\ pMain = "stream"
    /\ pipe # <<>>
    /\ line' = Head(pipe)
    /\ pipe' = Tail(pipe)
    /\ nRead' = nRead + 1
    /\ sink' = 1
    /\ pMain' = "body"
    /\ UNCHANGED <<pCloud, psutilOk, pChild, nWritten, console, outputLog, smp,
                   stopEvent, memoryCsv, wrote, runEnd, uploadedCsv>>
    /\ UNCHANGED notProfVars

\* main(): one write (and flush) of the loop body
WriteLine ==
    /\ pMain = "body"
    /\ IF SinkOrder[sink] = "console"
       THEN /\ console' = Append(console, ChildLine(line))
            /\ UNCHANGED <<outputLog, wrote>>
       ELSE /\ outputLog' = Append(outputLog, line)
            /\ wrote' = wrote \cup {<<"main", "output.log">>}
            /\ UNCHANGED console
    /\ IF sink < Len(SinkOrder)
       THEN /\ sink' = sink + 1
            /\ UNCHANGED <<pMain, line>>
       ELSE /\ sink' = 0
            /\ line' = 0
            /\ pMain' = "stream"
    /\ UNCHANGED <<pCloud, psutilOk, pChild, pipe, nWritten, nRead, smp,
                   stopEvent, memoryCsv, runEnd, uploadedCsv>>
    /\ UNCHANGED notProfVars

\* main(): the loop ends when the child has ended and the pipe is drained
EndOfOutput ==
    /\ pMain = "stream"
    /\ pipe = <<>>
    /\ pChild # "running"
    /\ pMain' = "wait"
    /\ UNCHANGED <<pCloud, psutilOk, pChild, pipe, nWritten, nRead, line, sink,
                   console, outputLog, smp, stopEvent, memoryCsv, wrote,
                   runEnd, uploadedCsv>>
    /\ UNCHANGED notProfVars

\* main(): exit_code = process.wait() reaps the child
WaitChild ==
    /\ pMain = "wait"
    /\ pChild = "zombie"
    /\ pChild' = "gone"
    /\ pMain' = "stop"
    /\ UNCHANGED <<pCloud, psutilOk, pipe, nWritten, nRead, line, sink,
                   console, outputLog, smp, stopEvent, memoryCsv, wrote,
                   runEnd, uploadedCsv>>
    /\ UNCHANGED notProfVars

\* MemoryProfiler.stop(): self._stop.set()
StopSet ==
    /\ pMain = "stop"
    /\ stopEvent' = TRUE
    /\ pMain' = "join"
    /\ UNCHANGED <<pCloud, psutilOk, pChild, pipe, nWritten, nRead, line, sink,
                   console, outputLog, smp, memoryCsv, wrote, runEnd,
                   uploadedCsv>>
    /\ UNCHANGED notProfVars

\* MemoryProfiler.stop(): self._thread.join(timeout=2) returns because the
\* thread has ended
JoinReturn ==
    /\ pMain = "join"
    /\ smp = "done"
    /\ pMain' = "handle"
    /\ UNCHANGED <<pCloud, psutilOk, pChild, pipe, nWritten, nRead, line, sink,
                   console, outputLog, smp, stopEvent, memoryCsv, wrote,
                   runEnd, uploadedCsv>>
    /\ UNCHANGED notProfVars

\* MemoryProfiler.stop(): self._thread.join(timeout=2) returns after two
\* seconds although the thread has not ended
JoinTimeout ==
    /\ pMain = "join"
    /\ smp # "done"
    /\ pMain' = "handle"
    /\ UNCHANGED <<pCloud, psutilOk, pChild, pipe, nWritten, nRead, line, sink,
                   console, outputLog, smp, stopEvent, memoryCsv, wrote,
                   runEnd, uploadedCsv>>
    /\ UNCHANGED notProfVars

\* main(): the exit handling up to debug.log_run_end
RecordRunEnd ==
    /\ pMain = "handle"
    /\ runEnd' = TRUE
    /\ pMain' = "upload"
    /\ UNCHANGED <<pCloud, psutilOk, pChild, pipe, nWritten, nRead, line, sink,
                   console, outputLog, smp, stopEvent, memoryCsv, wrote,
                   uploadedCsv>>
    /\ UNCHANGED notProfVars

\* main(): if is_cloud_mode(): upload_logs(...) reads the files of the log
\* directory; then sys.exit(exit_code)
UploadAndExit ==
    /\ pMain = "upload"
    /\ uploadedCsv' = IF pCloud /\ memoryCsv # <<>>
                      THEN [kind |-> "file", rows |-> memoryCsv]
                      ELSE uploadedCsv
    /\ pMain' = "exit"
    /\ UNCHANGED <<pCloud, psutilOk, pChild, pipe, nWritten, nRead, line, sink,
                   console, outputLog, smp, stopEvent, memoryCsv, wrote,
                   runEnd>>
    /\ UNCHANGED notProfVars

\* the child writes a line to its standard output
ChildWrites ==
    /\ pChild = "running"
    /\ nWritten < MaxLines
    /\ nWritten' = nWritten + 1
    /\ pipe' = Append(pipe, nWritten + 1)
    /\ UNCHANGED <<pCloud, psutilOk, pMain, pChild, nRead, line, sink, console,
                   outputLog, smp, stopEvent, memoryCsv, wrote, runEnd,
                   uploadedCsv>>
    /\ UNCHANGED notProfVars

\* the child ends; until process.wait() reaps it, it remains as a zombie
ChildEnds ==
    /\ pChild = "running"
    /\ pChild' = "zombie"
    /\ UNCHANGED <<pCloud, psutilOk, pMain, pipe, nWritten, nRead, line, sink,
                   console, outputLog, smp, stopEvent, memoryCsv, wrote,
                   runEnd, uploadedCsv>>
    /\ UNCHANGED notProfVars

\* _sample_loop: import psutil; on ImportError print a warning and return
ImportPsutil ==
    /\ SamplerAlive
    /\ smp = "import"
    /\ IF psutilOk
       THEN /\ smp' = "attach"
            /\ UNCHANGED console
       ELSE /\ smp' = "done"
            /\ console' = Append(console, PsutilWarning)
    /\ UNCHANGED <<pCloud, psutilOk, pMain, pChild, pipe, nWritten, nRead,
                   line, sink, outputLog, stopEvent, memoryCsv, wrote, runEnd,
                   uploadedCsv>>
    /\ UNCHANGED notProfVars

\* _sample_loop: process = psutil.Process(self.pid); NoSuchProcess returns
AttachProcess ==
    /\ SamplerAlive
    /\ smp = "attach"
    /\ smp' = IF pChild = "gone" THEN "done" ELSE "header"
    /\ UNCHANGED <<pCloud, psutilOk, pMain, pChild, pipe, nWritten, nRead,
                   line, sink, console, outputLog, stopEvent, memoryCsv, wrote,
                   runEnd, uploadedCsv>>
    /\ UNCHANGED notProfVars

\* _sample_loop: open(self.log_file, 'w') and the header row
WriteHeader ==
    /\ SamplerAlive
    /\ smp = "header"
    /\ memoryCsv' = <<"header">>
    /\ wrote' = wrote \cup {<<"sampler", "memory.csv">>}
    /\ smp' = "check"
    /\ UNCHANGED <<pCloud, psutilOk, pMain, pChild, pipe, nWritten, nRead,
                   line, sink, console, outputLog, stopEvent, runEnd,
                   uploadedCsv>>
    /\ UNCHANGED notProfVars

\* _sample_loop: while not self._stop.is_set()
CheckStop ==
    /\ SamplerAlive
    /\ smp = "check"
    /\ smp' = IF stopEvent THEN "done" ELSE "sample"
    /\ UNCHANGED <<pCloud, psutilOk, pMain, pChild, pipe, nWritten, nRead,
                   line, sink, console, outputLog, stopEvent, memoryCsv, wrote,
                   runEnd, uploadedCsv>>
    /\ UNCHANGED notProfVars

\* _sample_loop: memory_info / memory_percent / children; NoSuchProcess (a
\* reaped child, or ZombieProcess for one not yet reaped) breaks the loop
SampleMemory ==
    /\ SamplerAlive
    /\ smp = "sample"
    /\ \/ pChild # "gone" /\ smp' = "append"
       \/ pChild # "running" /\ smp' = "done"
    /\ UNCHANGED <<pCloud, psutilOk, pMain, pChild, pipe, nWritten, nRead,
                   line, sink, console, outputLog, stopEvent, memoryCsv, wrote,
                   runEnd, uploadedCsv>>
    /\ UNCHANGED notProfVars

\* _sample_loop: open(self.log_file, 'a') and one row
AppendRow ==
    /\ SamplerAlive
    /\ smp = "append"
    /\ memoryCsv' = Append(memoryCsv, "row")
    /\ wrote' = wrote \cup {<<"sampler", "memory.csv">>}
    /\ smp' = "sleep"
    /\ UNCHANGED <<pCloud, psutilOk, pMain, pChild, pipe, nWritten, nRead,
                   line, sink, console, outputLog, stopEvent, runEnd,
                   uploadedCsv>>
    /\ UNCHANGED notProfVars

\* _sample_loop: self._stop.wait(self.interval) returns, at once when the
\* event is set and after the interval otherwise
WaitInterval ==
    /\ SamplerAlive
    /\ smp = "sleep"
    /\ stopEvent \/ Len(memoryCsv) <= MaxSamples
    /\ smp' = "check"
    /\ UNCHANGED <<pCloud, psutilOk, pMain, pChild, pipe, nWritten, nRead,
                   line, sink, console, outputLog, stopEvent, memoryCsv, wrote,
                   runEnd, uploadedCsv>>
    /\ UNCHANGED notProfVars

\* the steps of the main thread
MainStep ==
    \/ ProfilerStart
    \/ ReadLine
    \/ WriteLine
    \/ EndOfOutput
    \/ WaitChild
    \/ StopSet
    \/ JoinReturn
    \/ JoinTimeout
    \/ RecordRunEnd
    \/ UploadAndExit

\* the steps of the sampler thread
SamplerStep ==
    \/ ImportPsutil
    \/ AttachProcess
    \/ WriteHeader
    \/ CheckStop
    \/ SampleMemory
    \/ AppendRow
    \/ WaitInterval

ProfNext ==
    \/ MainStep
    \/ SamplerStep
    \/ ChildWrites
    \/ ChildEnds

\* both threads keep being scheduled and the child ends
SpecProfiler ==
    /\ ProfInit
    /\ [][ProfNext]_vars
    /\ WF_vars(MainStep)
    /\ WF_vars(SamplerStep)
    /\ WF_vars(ChildEnds)

\* C22: whatever the schedule of the sampler thread, it writes no file but
\* memory.csv and the main thread never writes memory.csv; output.log holds
\* the child's lines in the order they were read, every line of it is on the
\* console already, and once the loop has ended it holds every line the
\* child wrote
C22_OutputLogIsChildOutput ==
    /\ \A w \in wrote : (w[1] = "sampler") <=> (w[2] = "memory.csv")
    /\ Len(outputLog) \in {nRead, nRead - 1}
    /\ outputLog = LinesFrom(0, Len(outputLog))
    /\ IsPrefix(outputLog, ConsoleLines)
    /\ IsPrefix(ConsoleLines, LinesFrom(0, nRead))
    /\ pMain \notin {"popen", "stream", "body"} =>
            outputLog = LinesFrom(0, nWritten)

\* both lines of the child are in output.log while the sampler, scheduled in
\* between, has written the header and a row of memory.csv and the warning-free
\* console holds the same lines
C22_Witness ==
    /\ pMain = "exit"
    /\ outputLog = <<1, 2>>
    /\ ConsoleLines = <<1, 2>>
    /\ Len(memoryCsv) >= 2
    /\ wrote = {<<"main", "output.log">>, <<"sampler", "memory.csv">>}

\* C30: once MemoryProfiler.stop() has returned memory.csv is not written
\* any more, so the copy of it that upload_logs reads is the final one; and
\* the sampler thread ends once stop() was called or the monitored process
\* is gone
C30_StopEndsSampling ==
    /\ [][StopReturned => memoryCsv' = memoryCsv]_vars
    /\ [](pMain = "exit" /\ uploadedCsv # NoFile =>
            uploadedCsv.rows = memoryCsv)
    /\ (stopEvent \/ pChild = "gone") ~> (smp = "done" \/ pMain = "exit")

\* ---------------------------------------------------------------------------
\* The pipeline's entry point: src/main.py main() and
\* subsets_utils/environment.py validate_environment
\* ---------------------------------------------------------------------------

\* fetches and state writes of one ingest phase
MaxIngestSteps == 2

\* what the environment may hold for CI: unset (get returns ''), or a value
CiValues == {"", "true", "TRUE", "1"}

\* the variables validate_environment may ask for
EnvNames == {"DATA_DIR", "R2_ACCOUNT_ID", "R2_ACCESS_KEY_ID",
             "R2_SECRET_ACCESS_KEY", "R2_BUCKET_NAME"}

\* is_cloud_mode: os.environ.get('CI', '').lower() == 'true'
IsCloudMode(v) == Lower(v) = "true"

RequiredLocalAlways(v) == <<"DATA_DIR">>

\* validate_environment: the list `required` of the active mode
Required(v) ==
    IF IsCloudMode(v)
    THEN <<"R2_ACCOUNT_ID", "R2_ACCESS_KEY_ID", "R2_SECRET_ACCESS_KEY",
           "R2_BUCKET_NAME">>
    ELSE <<"DATA_DIR">>

\* validate_environment: missing = [var for var in required if var not in os.environ]
Missing(v, env) == SelectSeq(Required(v), LAMBDA var : var \notin env)

\* validate_environment: the ValueError raised, or NoError
ValidateEnvironment(v, env) ==
    IF Missing(v, env) # <<>>
    THEN [kind |-> "ValueError",
          mode |-> IF IsCloudMode(v) THEN "cloud" ELSE "local",
          missing |-> Missing(v, env)]
    ELSE NoError

ShouldIngestAlways(a) == TRUE

\* main(): should_ingest = not args.transform_only
ShouldIngest(a) == ~a.transform_only

\* main(): should_transform = not args.ingest_only
ShouldTransform(a) == ~a.ingest_only

\* positions of main(): at a family k of FAMILIES, before or inside its run()
AtFamily(k, inside) == [at |-> "transform", k |-> k, inside |-> inside]
At(name) == [at |-> name, k |-> 0, inside |-> FALSE]

\* main(): where control goes after the ingest phase
AfterIngest(a) == IF ShouldTransform(a) THEN AtFamily(1, FALSE) ELSE At("done")

\* main(): where control goes after validate_environment returned
AfterValidate(a) == IF ShouldIngest(a) THEN At("ingest") ELSE AfterIngest(a)

\* steps of the run as the trace records them
Ev(what, k) == [what |-> what, k |-> k]

EntryInit ==
    /\ args \in [ingest_only : BOOLEAN, transform_only : BOOLEAN]
    /\ environ \in SUBSET EnvNames
    /\ ci \in CiValues
    /\ ePc = At("validate")
    /\ trace = <<>>
    /\ error = NoError
    /\ IngestIdle
    /\ FnIdle
    /\ TransformIdle
    /\ HttpIdle
    /\ SupIdle
    /\ ProfIdle

\* main(): validate_environment()
EntryValidate ==
    /\ ePc = At("validate")
    /\ error' = ValidateEnvironment(ci, environ)
    /\ trace' = Append(trace, Ev("validate", 0))
    /\ ePc' = IF ValidateEnvironment(ci, environ) # NoError
              THEN At("raised")
              ELSE AfterValidate(args)
    /\ UNCHANGED <<args, environ, ci>>
    /\ UNCHANGED notEntryVars

\* main(): ingest_zillow.run() is entered
EntryIngestBegin ==
    /\ ePc = At("ingest")
    /\ ePc' = At("ingesting")
    /\ trace' = Append(trace, Ev("ingest begin", 0))
    /\ UNCHANGED <<args, environ, ci, error>>
    /\ UNCHANGED notEntryVars

\* ingest_zillow.run(): a fetch or a write of the state document
EntryIngestStep ==
    /\ ePc = At("ingesting")
    /\ Len(SelectSeq(trace, LAMBDA e : e.what \in {"fetch", "state write"}))
            < MaxIngestSteps
    /\ \E what \in {"fetch", "state write"} :
            trace' = Append(trace, Ev(what, 0))
    /\ UNCHANGED <<args, environ, ci, ePc, error>>
    /\ UNCHANGED notEntryVars

\* main(): ingest_zillow.run() returns
EntryIngestEnd ==
    /\ ePc = At("ingesting")
    /\ ePc' = AfterIngest(args)
    /\ trace' = Append(trace, Ev("ingest end", 0))
    /\ UNCHANGED <<args, environ, ci, error>>
    /\ UNCHANGED notEntryVars

\* main(): the run() of family k is entered
EntryTransformBegin ==
    /\ ePc.at = "transform"
    /\ ~ePc.inside
    /\ ePc' = AtFamily(ePc.k, TRUE)
    /\ trace' = Append(trace, Ev("transform begin", ePc.k))
    /\ UNCHANGED <<args, environ, ci, error>>
    /\ UNCHANGED notEntryVars

\* main(): the run() of family k returns; the next family, or the end
EntryTransformEnd ==
    /\ ePc.at = "transform"
    /\ ePc.inside
    /\ ePc' = IF ePc.k < Len(FAMILIES)
              THEN AtFamily(ePc.k + 1, FALSE)
              ELSE At("done")
    /\ trace' = Append(trace, Ev("transform end", ePc.k))
    /\ UNCHANGED <<args, environ, ci, error>>
    /\ UNCHANGED notEntryVars

\* an exception leaves ingest_zillow.run() or a family's run(): main() has no
\* handler and the process ends
EntryPhaseRaises ==
    /\ ePc.at = "ingesting" \/ (ePc.at = "transform" /\ ePc.inside)
    /\ ePc' = At("aborted")
    /\ trace' = Append(trace, Ev("exception", ePc.k))
    /\ UNCHANGED <<args, environ, ci, error>>
    /\ UNCHANGED notEntryVars

EntryNext ==
    \/ EntryValidate
    \/ EntryIngestBegin
    \/ EntryIngestStep
    \/ EntryIngestEnd
    \/ EntryTransformBegin
    \/ EntryTransformEnd
    \/ EntryPhaseRaises

SpecEntry == EntryInit /\ [][EntryNext]_vars

\* the names of the active mode's required variables that are not set
ExpectedMissing ==
    IF ci \in {"true", "TRUE"}
    THEN {"R2_ACCOUNT_ID", "R2_ACCESS_KEY_ID", "R2_SECRET_ACCESS_KEY",
          "R2_BUCKET_NAME"} \ environ
    ELSE {"DATA_DIR"} \ environ

\* the steps of the trace that belong to the pipeline's work
WorkSteps == SelectSeq(trace, LAMBDA e : e.what # "validate")

\* C23: validate_environment raises exactly when a variable required for the
\* active mode is unset, the error lists exactly the missing variables, each
\* once, and when it raises no ingest or transform step has happened or
\* happens; every such step comes after a validation that passed
C23_ValidateEnvironment ==
    /\ ePc # At("validate") =>
        /\ (error # NoError) <=> (ExpectedMissing # {})
        /\ error # NoError =>
            /\ Range(error.missing) = ExpectedMissing
            /\ Len(error.missing) = Cardinality(ExpectedMissing)
            /\ error.mode = (IF ci \in {"true", "TRUE"} THEN "cloud" ELSE "local")
            /\ ePc = At("raised")
            /\ WorkSteps = <<>>
    /\ WorkSteps # <<>> =>
        /\ trace[1] = Ev("validate", 0)
        /\ error = NoError

\* cloud mode with two of the four variables unset: the error names both
C23_Witness ==
    /\ ci = "true"
    /\ environ = {"DATA_DIR", "R2_ACCOUNT_ID", "R2_BUCKET_NAME"}
    /\ ePc = At("raised")
    /\ error # NoError
    /\ error.missing = <<"R2_ACCESS_KEY_ID", "R2_SECRET_ACCESS_KEY">>

\* index of the first step of the trace with the given content, 0 when none
FirstIndex(e) ==
    IF \E j \in 1..Len(trace) : trace[j] = e
    THEN CHOOSE j \in 1..Len(trace) :
            /\ trace[j] = e
            /\ \A h \in 1..(j - 1) : trace[h] # e
    ELSE 0

Happened(e) == FirstIndex(e) # 0

\* C24: the ingest phase is entered only without --transform-only and the
\* transform phase only without --ingest-only, and a run that ends normally
\* has run exactly the phases the flags leave; every transform step comes
\* after the end of the ingest phase when that phase ran; the families run
\* one after another in the order home value, rent, inventory, sales
C24_PhaseOrder ==
    /\ Happened(Ev("ingest begin", 0)) => ~args.transform_only
    /\ \A k \in 1..Len(FAMILIES) :
            Happened(Ev("transform begin", k)) => ~args.ingest_only
    /\ ePc = At("done") =>
        /\ Happened(Ev("ingest end", 0)) <=> ~args.transform_only
        /\ \A k \in 1..Len(FAMILIES) :
            Happened(Ev("transform end", k)) <=> ~args.ingest_only
    /\ \A j \in 1..Len(trace) :
        trace[j].what = "transform begin" /\ ~args.transform_only =>
            /\ Happened(Ev("ingest end", 0))
            /\ FirstIndex(Ev("ingest end", 0)) < j
            /\ \A h \in (j + 1)..Len(trace) :
                    trace[h].what \notin {"fetch", "state write", "ingest begin"}
    /\ \A j \in 1..Len(trace) :
        trace[j].what = "transform begin" =>
            /\ trace[j].k = 1 \/ trace[j - 1] = Ev("transform end", trace[j].k - 1)
            /\ j < Len(trace) =>
                    trace[j + 1] \in {Ev("transform end", trace[j].k),
                                     Ev("exception", trace[j].k)}
    /\ FAMILIES = <<"home_value", "rent", "inventory", "sales">>

\* both flags omitted: the ingest phase with a fetch and a state write, then
\* the four families in order
C24_Witness ==
    /\ args = [ingest_only |-> FALSE, transform_only |-> FALSE]
    /\ ePc = At("done")
    /\ Len(trace) = 13
    /\ trace[2] = Ev("ingest begin", 0)
    /\ trace[5] = Ev("ingest end", 0)
    /\ trace[6] = Ev("transform begin", 1)
    /\ trace[13] = Ev("transform end", 4)

\* ---------------------------------------------------------------------------
\* validate(table, schema) on schemas whose keys may be absent:
\* subsets_utils/testing.py validate, the row-count and unique checks
\* ---------------------------------------------------------------------------

\* rows of the enumerated tables
MaxValRows == 3

\* the value of schema["unique"]: a column name or a list of column names
UniqueStr(name) == [type |-> "str", str |-> name, list |-> <<>>]
UniqueList(names) == [type |-> "list", str |-> "", list |-> names]

\* if isinstance(unique, str): unique = [unique]
AsList(unique) == IF unique.type = "str" THEN <<unique.str>> ELSE unique.list

\* the truth value `if x := schema.get(key)` tests: None, 0, '' and [] are false
TruthyInt(schema, key) == key \in DOMAIN schema /\ schema[key] # 0
TruthyUnique(schema) ==
    /\ "unique" \in DOMAIN schema
    /\ IF schema.unique.type = "str"
       THEN schema.unique.str # ""
       ELSE schema.unique.list # <<>>

\* validate did not raise
Passed == [raised |-> FALSE, check |-> "none", count |-> 0]

\* the AssertionError of the check, with the count its message carries
Raised(check, count) == [raised |-> TRUE, check |-> check, count |-> count]

\* validate(table, schema) for a schema without the keys columns and
\* not_null: the first assertion that fails, in the order of the code
ValidateSchema(df, schema) ==
    IF TruthyInt(schema, "min_rows") /\ ~(Len(df.rows) >= schema.min_rows)
    THEN Raised("min_rows", Len(df.rows))
    ELSE IF TruthyInt(schema, "max_rows") /\ ~(Len(df.rows) <= schema.max_rows)
    THEN Raised("max_rows", Len(df.rows))
    ELSE IF TruthyUnique(schema)
            /\ DuplicateCount(df, AsList(schema.unique)) # 0
    THEN Raised("unique", DuplicateCount(df, AsList(schema.unique)))
    ELSE Passed

\* the rows of the enumerated tables: two columns, a value or null in each
ValRows == [a : {"x", NA}, b : {"x", NA}]

\* a table of n equal rows
LongTable(n) == [columns |-> <<"a", "b">>,
                 rows |-> [j \in 1..n |-> [a |-> "x", b |-> "x"]]]

\* the tables validate is applied to: every table of at most MaxValRows rows,
\* and tables of 99 and 100 rows
ValTables ==
    {[columns |-> <<"a", "b">>, rows |-> rs] :
        rs \in UNION {[1..n -> ValRows] : n \in 0..MaxValRows}}
    \cup {LongTable(99), LongTable(100)}

\* schemas: each of min_rows, max_rows, unique absent or present
ValSchemas ==
    LET mins == {<<>>} \cup {[min_rows |-> v] : v \in {0, 1, 100}}
        maxs == {<<>>} \cup {[max_rows |-> v] : v \in {0, 1, 2}}
        uniq == {<<>>} \cup {[unique |-> u] :
                    u \in {UniqueStr("a"), UniqueList(<<>>), UniqueList(<<"a">>),
                           UniqueList(<<"a", "b">>)}}
    IN  {m @@ x @@ u : m \in mins, x \in maxs, u \in uniq}

ValidateInit ==
    /\ fnPc = "call"
    /\ fnInput \in [table : ValTables, schema : ValSchemas]
    /\ fnOutput = Passed
    /\ IngestIdle
    /\ TransformIdle
    /\ HttpIdle
    /\ SupIdle
    /\ ProfIdle
    /\ EntryIdle

\* validate(table, schema)
ValidateCall ==
    /\ fnPc = "call"
    /\ fnPc' = "done"
    /\ fnOutput' = ValidateSchema(fnInput.table, fnInput.schema)
    /\ UNCHANGED fnInput
    /\ UNCHANGED notFnVars

ValidateNext == ValidateCall

SpecValidate == ValidateInit /\ [][ValidateNext]_vars

\* C25: when min_rows and/or max_rows is present with any integer value, 0
\* included, validate raises on the row count exactly when the table has
\* fewer rows than min_rows or more rows than max_rows; with min_rows = 100
\* it raises below 100 rows and passes at 100; only an absent key skips
\* its check
C25_RowCountChecked ==
    fnPc = "done" =>
        LET n == Len(fnInput.table.rows)
            sch == fnInput.schema
            low == "min_rows" \in DOMAIN sch /\ n < sch.min_rows
            high == "max_rows" \in DOMAIN sch /\ n > sch.max_rows
        IN  /\ (fnOutput.check \in {"min_rows", "max_rows"}) <=> (low \/ high)
            /\ (low \/ high) => fnOutput.raised

\* the keys of a row on the columns cs
KeyTuple(row, cs) == [k \in 1..Len(cs) |-> row[cs[k]]]

\* C26: with unique = [c1, ..., cj], j >= 1, and no row-count failure,
\* validate raises exactly when two distinct rows agree on all of c1..cj; the
\* count of the failure is the number of rows minus the number of distinct
\* key tuples; a column name given as a string behaves like the one-element
\* list
C26_UniqueKeyChecked ==
    fnPc = "done" /\ "unique" \in DOMAIN fnInput.schema
        /\ AsList(fnInput.schema.unique) # <<>>
        /\ fnOutput.check \notin {"min_rows", "max_rows"} =>
        LET rows == fnInput.table.rows
            cs == IF fnInput.schema.unique.type = "str"
                  THEN <<fnInput.schema.unique.str>>
                  ELSE fnInput.schema.unique.list
            clash == \E j, h \in 1..Len(rows) :
                        j # h /\ \A c \in Range(cs) : rows[j][c] = rows[h][c]
            distinct == Cardinality({KeyTuple(rows[j], cs) : j \in 1..Len(rows)})
        IN  /\ fnOutput.raised <=> clash
            /\ fnOutput.raised =>
                    fnOutput = Raised("unique", Len(rows) - distinct)
            /\ (Len(rows) - distinct # 0) <=> clash
            /\ fnInput.schema.unique.type = "str" =>
                    fnOutput = ValidateSchema(fnInput.table,
                        [fnInput.schema EXCEPT
                            !.unique = UniqueList(<<fnInput.schema.unique.str>>)])

\* three rows, two of them equal on (a, b) and all equal on a: the composite
\* key fails with count 1
C26_Witness ==
    /\ fnPc = "done"
    /\ "unique" \in DOMAIN fnInput.schema
    /\ fnInput.schema.unique = UniqueList(<<"a", "b">>)
    /\ Len(fnInput.table.rows) = 3
    /\ \A j \in 1..3 : fnInput.table.rows[j].a = "x"
    /\ fnOutput = Raised("unique", 1)

\* the pairs of this run that failed before save_raw_file returned: at the
\* fetch, at the status check or inside the raw save
FailedBeforeSaved == {p \in failed : KeyOf(p) \notin finished}

\* C27: in every state of an ingest run the persisted completed set holds
\* only keys that were in the state document at the start of the run or whose
\* save_raw_file returned in this run; a pair that failed at the fetch, the
\* status check or the raw save is not in it, and the download list computed
\* from the persisted document contains that pair again
C27_PersistedOnlySaved ==
    pc # "start" /\ stateDoc.kind = "doc" =>
        /\ stateDoc.completed \subseteq (startCompleted \cup finished)
        /\ \A k \in finished : raw[k] = "saved"
        /\ \A p \in FailedBeforeSaved :
            /\ KeyOf(p) \notin stateDoc.completed
            /\ p \in Range(Downloads(LoadCompleted(stateDoc)))

\* the second run starts with a state document that holds completed keys;
\* the raw save of a pair failed half-way in the first run, its key is not in
\* the document, and the pair is in the download list again
C27_Witness ==
    /\ runs = 2
    /\ pc = "get"
    /\ i = 1
    /\ stateDoc.kind = "doc"
    /\ stateDoc.completed # {}
    /\ \E p \in Range(downloads) :
            /\ raw[KeyOf(p)] = "partial"
            /\ KeyOf(p) \notin stateDoc.completed

\* ---------------------------------------------------------------------------
\* The loop body of a multi-variant family from the loaded frames to the
\* standardized frame: transforms/home_value/main.py run, transforms/common.py
\* merge_variants and standardize_columns
\* ---------------------------------------------------------------------------

\* a melted frame of a source file that has no RegionType column
WithoutRegionType(df) == DropCols(df, {"RegionType"})

\* if not df.empty: dfs.append(df)
NonEmptyFrames(loaded) == SelectSeq(loaded, LAMBDA df : ~IsEmpty(df))

\* run(): dfs of the non-empty frames, merge_variants, standardize_columns;
\* an empty frame when no variant has data (continue)
MergeAndStandardize(loaded, region_type, value_cols) ==
    LET dfs == NonEmptyFrames(loaded)
    IN  IF dfs = <<>> THEN EmptyFrame
        ELSE StandardizeColumns(MergeVariants(dfs, value_cols), region_type,
                                value_cols)

\* the frames the first variant can give: with or without a RegionType
\* column, a value or null for each key it has
FirstFrames ==
    VariantFrames(1) \cup {WithoutRegionType(df) : df \in VariantFrames(1)}

\* the frames the j-th variant can give, a value for each key it has
LaterFrames(j) ==
    {MeltedFrame(ZHVI_VALUE_COLS[j], [k \in ks |-> "100"]) : ks \in SUBSET MergeKeys}

RECURSIVE LoadedLists(_)
\* the lists of m loaded frames, one per variant
LoadedLists(m) ==
    IF m = 1 THEN {<<df>> : df \in FirstFrames}
    ELSE {Append(dfs, df) : dfs \in LoadedLists(m - 1), df \in LaterFrames(m)}

SliceInit ==
    /\ fnPc = "loaded"
    /\ fnInput \in [loaded : LoadedLists(MaxFrames), region_type : {"metro", "state"}]
    /\ fnOutput = EmptyFrame
    /\ IngestIdle
    /\ TransformIdle
    /\ HttpIdle
    /\ SupIdle
    /\ ProfIdle
    /\ EntryIdle

\* the loop body of run() for one granularity
CallMergeAndStandardize ==
    /\ fnPc = "loaded"
    /\ fnOutput' = MergeAndStandardize(fnInput.loaded, fnInput.region_type,
                                       ZHVI_VALUE_COLS)
    /\ fnPc' = "standardized"
    /\ UNCHANGED <<fnInput, notFnVars>>

SliceNext == CallMergeAndStandardize

SpecSlice == SliceInit /\ [][SliceNext]_vars

\* the first non-empty frame among the loaded ones
FirstLoaded == NonEmptyFrames(fnInput.loaded)[1]

\* the (region_id, date) keys of the standardized output
OutputKeys ==
    {<<fnOutput.rows[j]["region_id"], fnOutput.rows[j]["date"]>> :
        j \in 1..Len(fnOutput.rows)}

\* the keys of the first non-empty frame, the date in the output's format
FirstKeys ==
    {<<FirstLoaded.rows[j]["RegionID"], ToIsoDate(FirstLoaded.rows[j]["date"])>> :
        j \in 1..Len(FirstLoaded.rows)}

UtilsLogHttpRequest(log, cache_requests, entry) ==
    IF cache_requests THEN Append(log, entry) ELSE log

\* the row of one log_http_request call (status -1 stands for None)
UtilsEntry(req, status, cached, err) ==
    [method |-> req.method, url |-> req.url, status |-> status,
     cached |-> cached, error |-> err]

\* utils CachedClient.request: CacheManager.get logs a hit, CacheManager.save
\* logs the stored response, and the finally block logs unless the response
\* came from the cache
UtilsCachedRequest(enabled, cache_requests, files, log, req, answer) ==
    LET key == CacheKey(req.method, req.url, req.params)
        cached == IF enabled THEN CacheGet(files, key) ELSE NoEntry
        fresh == BaseRequest(files, answer)
    IN  IF cached # NoEntry
        THEN [case |-> "hit", status |-> cached.status, raised |-> FALSE,
              cache |-> files,
              log |-> UtilsLogHttpRequest(log, cache_requests,
                          UtilsEntry(req, cached.status, TRUE, ""))]
        ELSE IF fresh.raised
        THEN [case |-> "error", status |-> -1, raised |-> TRUE,
              cache |-> files,
              log |-> UtilsLogHttpRequest(log, cache_requests,
                          UtilsEntry(req, -1, FALSE, fresh.error))]
        ELSE IF enabled /\ fresh.status < 400
        THEN [case |-> "stored", status |-> fresh.status, raised |-> FALSE,
              cache |-> CacheSave(files, key, answer),
              log |-> UtilsLogHttpRequest(
                          UtilsLogHttpRequest(log, cache_requests,
                              UtilsEntry(req, fresh.status, FALSE, "")),
                          cache_requests,
                          UtilsEntry(req, fresh.status, FALSE, ""))]
        ELSE [case |-> IF enabled THEN "not stored" ELSE "disabled",
              status |-> fresh.status, raised |-> FALSE, cache |-> files,
              log |-> UtilsLogHttpRequest(log, cache_requests,
                          UtilsEntry(req, fresh.status, FALSE, ""))]

\* utils get / post / put / delete: client = _get_or_create_client();
\* client.get(url, **kwargs); the plain httpx client logs nothing
UtilsRequest(cl, enabled, cache_requests, files, log, req, answer) ==
    IF cl = "cached"
    THEN UtilsCachedRequest(enabled, cache_requests, files, log, req, answer)
    ELSE [case |-> IF answer.kind = "error" THEN "error" ELSE "disabled",
          status |-> BaseRequest(files, answer).status,
          raised |-> BaseRequest(files, answer).raised,
          cache |-> files, log |-> log]

\* utils get / post / put / delete
UtilsCall ==
    /\ calls < MaxCalls
    /\ \E req \in Requests, answer \in NetAnswers :
        LET cl == GetOrCreateClient(client, cacheEnabled, "unset")
            r == UtilsRequest(cl, cacheEnabled, loggingEnabled, cache, httpLog,
                              req, answer)
        IN  /\ client' = cl
            /\ cache' = r.cache
            /\ httpLog' = r.log
            /\ calls' = calls + 1
            /\ hCall' = [kind |-> "call", client |-> cl, case |-> r.case,
                         raised |-> r.raised,
                         logged |-> Len(r.log) - Len(httpLog)]
    /\ UNCHANGED <<cacheEnabled, loggingEnabled, storedBy>>
    /\ UNCHANGED notHttpVars

UtilsHttpNext == ConfigureHttp \/ GetClient \/ UtilsCall

SpecUtilsHttp == HttpInit /\ [][UtilsHttpNext]_vars

\* C29: each call of get/post/put/delete appends exactly one entry to the
\* request log, whether it is a cache hit, a miss whose response is stored, a
\* miss with status >= 400, a call with caching disabled or a transport error
C29_OneLogEntryPerCall ==
    hCall # NoCall =>
        /\ hCall.case \in {"hit", "stored", "not stored", "disabled", "error"}
        /\ hCall.logged = 1

=============================================================================
